---- MODULE Spec2Model ----
(***************************************************************************)
(* Model of the vector-similarity tool: the provider-configurable          *)
(* EmbeddingService (live backend with mock fallback), the similarity      *)
(* ranker (cosineSimilarity / findMostSimilar), the RerankingService, the  *)
(* token suggestion analyzer, the rate limiter, and the browser page with  *)
(* the server routes it calls.  Each component has its own specification;  *)
(* the variables of the other components stay idle in it.                  *)
(*                                                                         *)
(* Texts are sequences of UTF-16 code units.  Scores are fixed point:      *)
(* a cosine similarity s in [-1,1] is the integer s*SimScale, a score on   *)
(* the 0..100 scale is the integer score*SimScale.                         *)
(***************************************************************************)
EXTENDS Integers, Sequences, FiniteSets, TLC

VARIABLES
    \* ---- EmbeddingService instance (src/unnamed/part_007, 19-48) ----
    provider,       \* this.provider
    model,          \* this.model
    apiKey,         \* this.apiKey ("" is undefined)
    usedRealAPI,    \* this.usedRealAPI
    inflight,       \* calls suspended at their await on the live backend
    last,           \* the most recently completed call and what it returned
    liveCalls,      \* number of requests issued to the live backend
    liveOk,         \* some request to the live backend has succeeded
    nCalls,         \* calls made so far on this instance
    \* ---- similarity ranker ----
    rankIn,         \* arguments of findMostSimilar
    rankOut,        \* its outcome: thrown error or the returned list
    \* ---- RerankingService instance (src/lib/reranking.ts, 32-59) ----
    rrProvider,     \* this.provider
    rrApiKey,       \* this.apiKey
    rrUsedRealAPI,  \* this.usedRealAPI
    rrIn,           \* arguments of rerankPassages
    rrOut,          \* its outcome
    \* ---- token suggestion analyzer ----
    sugIn,          \* arguments of generateTokenSuggestions
    sugOut,         \* its outcome
    \* ---- rate limiter (src/lib/rate-limit.ts) ----
    rlRoute,        \* the route whose requests call rateLimit
    rlLimit,        \* the limit argument
    kvCount,        \* value of the KV key rate_limit:<userId> (0: no key)
    kvExpireAt,     \* the tick at which the key expires (0: no TTL set)
    dbUser,         \* requestsThisMinute and minuteResetAt of the user row
    rlCalls,        \* rateLimit calls suspended at an await
    rlHistory,      \* the calls that returned, with their result
    rlNow,          \* the clock
    rlStarted,      \* calls started so far
    \* ---- browser page and server routes ----
    session,        \* the user is signed in
    uiApiKey,       \* the page's apiKey state
    uiApiKeyValid,  \* the page's apiKeyValid state: "null", "true", "false"
    lsApiKey,       \* localStorage 'google_ai_api_key' ("" is no item)
    httpInFlight,   \* requests sent and not yet answered
    httpLog,        \* every request the page has sent, with its body's apiKey
    serverKeys,     \* the keys route handlers have read from request bodies
    svcUse,         \* <<service instance, request id>>: the request used the instance
    \* ---- fallback generator ----
    fbIn,           \* the instance's configuration and the texts given to generateMockEmbedding
    fbOut,           \* the vectors it returned
    \* ---- token similarity ----
    tokIn,          \* the two tokens given to calculateTokenSimilarity
    tokOut,          \* the value it returned, and by which version of the function
    \* ---- EmbeddingService of src/lib/embeddings.ts ----
    GOOGLE_API_KEY, \* process.env.GOOGLE_API_KEY is set
    legCall         \* the call in progress or last settled: its requests and its result

embVars  == <<provider, model, apiKey, usedRealAPI, inflight, last, liveCalls, liveOk, nCalls>>
rankVars == <<rankIn, rankOut>>
rrVars   == <<rrProvider, rrApiKey, rrUsedRealAPI, rrIn, rrOut>>
sugVars  == <<sugIn, sugOut>>
rlVars   == <<rlRoute, rlLimit, kvCount, kvExpireAt, dbUser, rlCalls, rlHistory, rlNow, rlStarted>>
routeVars == <<session, uiApiKey, uiApiKeyValid, lsApiKey, httpInFlight, httpLog, serverKeys, svcUse>>
fbVars   == <<fbIn, fbOut>>
tokVars  == <<tokIn, tokOut>>
legVars  == <<GOOGLE_API_KEY, legCall>>
vars     == <<embVars, rankVars, rrVars, sugVars, rlVars, routeVars, fbVars, tokVars, legVars>>

\* no call has completed yet
NoCall == [kind |-> "none", texts |-> <<>>, outcome |-> "none", vectors |-> <<>>, live |-> <<>>]

(***************************************************************************)
(* Bounds of the model.                                                    *)
(***************************************************************************)
MaxCalls == 2       \* calls made on one EmbeddingService instance
MaxBatch == 2       \* texts in one generateEmbeddings call
MaxLegacyCalls == 3 \* calls made on the EmbeddingService of src/lib/embeddings.ts
MaxPassages == 3    \* passages given to findMostSimilar
MaxRerank == 2      \* passages given to rerankPassages
MaxRateCalls == 3   \* rateLimit calls of one user
MaxLimit == 2       \* the limit argument of rateLimit
MaxTime == 3        \* ticks of the clock
MaxHttp == 3        \* requests the page sends

\* fixed point: the number x is the integer x * SimScale
SimScale == 100

(***************************************************************************)
(* Text primitives.                                                        *)
(***************************************************************************)
\* String.prototype.toLowerCase on the code units the model uses
toLowerCase(text) ==
    [i \in 1..Len(text) |-> IF text[i] >= 65 /\ text[i] <= 90 THEN text[i] + 32 ELSE text[i]]

\* the characters /\s/ matches, among those the model uses
IsSpace(c) == c \in {9, 10, 32}

RECURSIVE Concat(_)
Concat(seqs) == IF seqs = <<>> THEN <<>> ELSE Head(seqs) \o Concat(Tail(seqs))

\* text.split(/\s+/).filter(word => word.length > 0)
RECURSIVE SplitWords(_, _)
SplitWords(text, cur) ==
    IF text = <<>> THEN (IF cur = <<>> THEN <<>> ELSE <<cur>>)
    ELSE IF IsSpace(Head(text))
         THEN (IF cur = <<>> THEN <<>> ELSE <<cur>>) \o SplitWords(Tail(text), <<>>)
         ELSE SplitWords(Tail(text), Append(cur, Head(text)))

\* words.join(' ')
RECURSIVE JoinWords(_)
JoinWords(words) ==
    IF words = <<>> THEN <<>>
    ELSE IF Len(words) = 1 THEN words[1]
    ELSE words[1] \o <<32>> \o JoinWords(Tail(words))

generateNGrams(text, minN, maxN) ==
    Concat([k \in 1..(maxN - minN + 1) |->
        LET n == minN + k - 1
            count == IF Len(text) >= n THEN Len(text) - n + 1 ELSE 0
        IN  [i \in 1..count |-> SubSeq(text, i, i + n - 1)]])

generateWordNGrams(text, minN, maxN) ==
    LET words == SplitWords(text, <<>>)
    IN  Concat([k \in 1..(maxN - minN + 1) |->
            LET n == minN + k - 1
                count == IF Len(words) >= n THEN Len(words) - n + 1 ELSE 0
            IN  [i \in 1..count |-> JoinWords(SubSeq(words, i, i + n - 1))]])

\* one round of the hash: ToInt32(((hash << 5) - hash) + char), computed on
\* 16-bit halves so that the 32-bit wrap-around is exact
HashStep(hash, char) ==
    LET lo    == hash % 65536
        hi    == ((hash - lo) \div 65536) % 65536
        loF   == 31 * lo + char
        nlo   == loF % 65536
        nhi   == (31 * hi + (loF \div 65536)) % 65536
    IN  IF nhi >= 32768 THEN (nhi - 65536) * 65536 + nlo ELSE nhi * 65536 + nlo

RECURSIVE HashFrom(_, _)
HashFrom(hash, str) ==
    IF str = <<>> THEN hash ELSE HashFrom(HashStep(hash, Head(str)), Tail(str))

\* a variant that returns the wrapped value without Math.abs
hashStringSigned(str) == HashFrom(0, str)

hashString(str) ==
    LET hash == HashFrom(0, str) IN IF hash < 0 THEN 0 - hash ELSE hash

(***************************************************************************)
(* Fallback (mock) embedding.  A vector is the record                      *)
(*   src  : "mock" or "live" (who produced it),                            *)
(*   text : the text it embeds,                                            *)
(*   len  : its length,                                                    *)
(*   feat : for a mock vector the contributions in the order the code adds *)
(*          them, each <<dimension, argument of Math.sin>>, every one      *)
(*          scaled by 1/sqrt(m) and the sum L2-normalised;                 *)
(*   m    : allNGrams.length.                                              *)
(***************************************************************************)
\* the remainder operator %: the result has the sign of the dividend
Remainder(a, b) == IF a >= 0 THEN a % b ELSE 0 - ((0 - a) % b)

\* a dimensionality that ignores the model
DimensionsIgnoringModel(p, m) == IF p = "openai" THEN 1536 ELSE 768

Dimensions(p, m) ==
    IF p = "openai" THEN (IF m = "text-embedding-3-large" THEN 3072 ELSE 1536) ELSE 768

\* a generator whose features also depend on the instance's provider
generateMockEmbeddingPerInstance(p, m, text) ==
    LET nGrams     == generateNGrams(toLowerCase(text), 2, 4)
        wordNGrams == generateWordNGrams(toLowerCase(text), 1, 3)
        allNGrams  == nGrams \o wordNGrams
        dimensions == Dimensions(p, m)
        seed       == IF p = "google" THEN 0 ELSE 1
        contrib(ngram) ==
            LET hash == hashString(ngram) + seed
            IN  [k \in 1..8 |-> <<Remainder(hash + (k - 1) * 97, dimensions), hash + (k - 1)>>]
    IN  [src  |-> "mock",
         text |-> text,
         len  |-> dimensions,
         feat |-> Concat([j \in 1..Len(allNGrams) |-> contrib(allNGrams[j])]),
         m    |-> Len(allNGrams)]

generateMockEmbedding(p, m, text) ==
    LET nGrams     == generateNGrams(toLowerCase(text), 2, 4)
        wordNGrams == generateWordNGrams(toLowerCase(text), 1, 3)
        allNGrams  == nGrams \o wordNGrams
        dimensions == Dimensions(p, m)
        contrib(ngram) ==
            LET hash == hashString(ngram)
            IN  [k \in 1..8 |-> <<Remainder(hash + (k - 1) * 97, dimensions), hash + (k - 1)>>]
    IN  [src  |-> "mock",
         text |-> text,
         len  |-> dimensions,
         feat |-> Concat([j \in 1..Len(allNGrams) |-> contrib(allNGrams[j])]),
         m    |-> Len(allNGrams)]

\* what the live backend returns for a text (result.embedding.values,
\* response.data[i].embedding): a vector of the model's dimensionality
LiveEmbedding(p, m, text) ==
    [src |-> "live", text |-> text, len |-> Dimensions(p, m), feat |-> <<>>, m |-> 0]

(***************************************************************************)
(* EmbeddingService: generateEmbedding / generateEmbeddings.               *)
(*                                                                         *)
(* A call with a credential issues its requests and suspends at its await  *)
(* (a record in inflight); each request later settles "ok" or "fail", and  *)
(* the continuation of the call runs when its awaited promise settles.     *)
(***************************************************************************)
\* the (provider, model) pairs a route can construct the service with; "other"
\* is a provider string the routes cast to EmbeddingProvider unchecked
Configs == { <<"google", "gemini-embedding-001">>,
             <<"openai", "text-embedding-3-small">>,
             <<"openai", "text-embedding-3-large">>,
             <<"other", "gemini-embedding-001">> }
KeyValues == {"", "malformed", "valid"}

\* "Ab", "a b"
TextList == << <<65, 98>>, <<97, 32, 98>> >>
Texts == { TextList[i] : i \in 1..Len(TextList) }

\* the batches: the windows of the texts taken cyclically
Batches ==
    { [i \in 1..n |-> TextList[((k + i) % Len(TextList)) + 1]] :
        n \in 0..MaxBatch, k \in 1..Len(TextList) }

\* generateMockEmbedding tabulated over the configurations and texts of the
\* model (it is a pure function, evaluated once per argument)
MockEmbeddings ==
    [c \in Configs |-> [t \in Texts |-> generateMockEmbedding(c[1], c[2], t)]]

\* this.generateMockEmbedding(text) on the instance
MockEmbeddingOf(text) == MockEmbeddings[<<provider, model>>][text]

\* the value a call resolves with (or the error it rejects with)
Returned(kind, texts, vectors, live) ==
    [kind |-> kind, texts |-> texts, outcome |-> "resolved", vectors |-> vectors, live |-> live]

\* the catch block of generateEmbedding / generateEmbeddings
CatchFallback(kind, texts, live) ==
    Returned(kind, texts,
             [i \in 1..Len(texts) |-> MockEmbeddingOf(texts[i])], live)

\* the `if (!this.apiKey)` branch
NoKeyReturn(kind, texts) ==
    Returned(kind, texts,
             [i \in 1..Len(texts) |-> MockEmbeddingOf(texts[i])],
             [i \in 1..Len(texts) |-> "none"])

\* the end of the try block: this.usedRealAPI = true; return result(s)
LiveReturn(kind, texts) ==
    Returned(kind, texts,
             [i \in 1..Len(texts) |-> LiveEmbedding(provider, model, texts[i])],
             [i \in 1..Len(texts) |-> "ok"])

HasKey == apiKey # ""

EmbInit ==
    /\ \E c \in Configs : provider = c[1] /\ model = c[2]
    /\ \E arg \in KeyValues, env \in KeyValues :
           apiKey = IF arg # "" THEN arg
                    ELSE IF provider \in {"google", "openai"} THEN env ELSE ""
    /\ usedRealAPI = FALSE
    /\ inflight = {}
    /\ last = NoCall
    /\ liveCalls = 0
    /\ liveOk = FALSE
    /\ nCalls = 0

EmbIdle ==
    /\ provider = "google" /\ model = "gemini-embedding-001" /\ apiKey = ""
    /\ usedRealAPI = FALSE /\ inflight = {} /\ last = NoCall
    /\ liveCalls = 0 /\ liveOk = FALSE /\ nCalls = 0

\* a start that omits the `if (!this.apiKey)` return
StartCallNoKeyCheck(kind, texts, requests) ==
    /\ nCalls < MaxCalls
    /\ nCalls' = nCalls + 1
    /\ inflight' = inflight \cup
           {[id |-> nCalls + 1, kind |-> kind, texts |-> texts,
             items |-> [i \in 1..requests |-> "pending"]]}
    /\ liveCalls' = liveCalls + requests
    /\ UNCHANGED <<provider, model, apiKey, usedRealAPI, liveOk, last>>
    /\ UNCHANGED <<rankVars, rrVars, sugVars, rlVars, routeVars, fbVars, tokVars, legVars>>

\* a call that starts: everything up to its first await
StartCall(kind, texts, requests) ==
    /\ nCalls < MaxCalls
    /\ nCalls' = nCalls + 1
    /\ IF ~HasKey
       THEN /\ last' = NoKeyReturn(kind, texts)
            /\ UNCHANGED <<inflight, liveCalls>>
       ELSE IF provider \notin {"google", "openai"}
       THEN \* throw new Error(`Unsupported provider`) inside the try
            /\ last' = CatchFallback(kind, texts, [i \in 1..Len(texts) |-> "none"])
            /\ UNCHANGED <<inflight, liveCalls>>
       ELSE /\ inflight' = inflight \cup
                   {[id |-> nCalls + 1, kind |-> kind, texts |-> texts,
                     items |-> [i \in 1..requests |-> "pending"]]}
            /\ liveCalls' = liveCalls + requests
            /\ UNCHANGED last
    /\ UNCHANGED <<provider, model, apiKey, usedRealAPI, liveOk>>
    /\ UNCHANGED <<rankVars, rrVars, sugVars, rlVars, routeVars, fbVars, tokVars, legVars>>

generateEmbedding(text) ==
    StartCall("single", <<text>>, 1)

\* generateGoogleEmbeddings issues one embedContent request per text under
\* Promise.all; generateOpenAIEmbeddings issues one request for the batch
generateEmbeddings(texts) ==
    StartCall("batch", texts, IF provider = "google" THEN Len(texts) ELSE 1)

\* the live outcome of each text of call c, given its requests' states
LiveOf(c, items) ==
    [i \in 1..Len(c.texts) |-> IF Len(items) = Len(c.texts) THEN items[i] ELSE items[1]]

AllOk(items) == \A i \in 1..Len(items) : items[i] = "ok"

\* the awaited promise fulfils: the rest of the try block runs
Fulfilled(c) ==
    /\ usedRealAPI' = TRUE
    /\ last' = LiveReturn(c.kind, c.texts)
    /\ inflight' = inflight \ {c}

\* the awaited promise rejects: the catch block runs
Rejected(c, items) ==
    /\ last' = CatchFallback(c.kind, c.texts, LiveOf(c, items))
    /\ inflight' = inflight \ {c}
    /\ UNCHANGED usedRealAPI

\* a request of call c to the live backend succeeds (the backend accepts
\* only a well-formed key)
LiveRequestSucceeds(c, i) ==
    /\ apiKey = "valid"
    /\ c \in inflight
    /\ i \in 1..Len(c.items)
    /\ c.items[i] = "pending"
    /\ liveOk' = TRUE
    /\ LET items == [c.items EXCEPT ![i] = "ok"]
       IN  IF AllOk(items)
           THEN Fulfilled(c)
           ELSE /\ inflight' = (inflight \ {c}) \cup {[c EXCEPT !.items = items]}
                /\ UNCHANGED <<usedRealAPI, last>>
    /\ UNCHANGED <<provider, model, apiKey, liveCalls, nCalls>>
    /\ UNCHANGED <<rankVars, rrVars, sugVars, rlVars, routeVars, fbVars, tokVars, legVars>>

\* a request of call c fails (authentication, network, rate limit, quota);
\* Promise.all rejects with the first rejection
LiveRequestFails(c, i) ==
    /\ c \in inflight
    /\ i \in 1..Len(c.items)
    /\ c.items[i] = "pending"
    /\ Rejected(c, [c.items EXCEPT ![i] = "fail"])
    /\ UNCHANGED <<provider, model, apiKey, liveCalls, liveOk, nCalls>>
    /\ UNCHANGED <<rankVars, rrVars, sugVars, rlVars, routeVars, fbVars, tokVars, legVars>>

\* Promise.all([]) of an empty google batch fulfils with no request at all
EmptyBatchFulfils(c) ==
    /\ c \in inflight
    /\ c.items = <<>>
    /\ Fulfilled(c)
    /\ UNCHANGED <<provider, model, apiKey, liveCalls, liveOk, nCalls>>
    /\ UNCHANGED <<rankVars, rrVars, sugVars, rlVars, routeVars, fbVars, tokVars, legVars>>

CallGenerateEmbedding == \E text \in Texts : generateEmbedding(text)
CallGenerateEmbeddings == \E texts \in Batches : generateEmbeddings(texts)
RequestSucceeds == \E c \in inflight : \E i \in 1..Len(c.items) : LiveRequestSucceeds(c, i)
RequestFails == \E c \in inflight : \E i \in 1..Len(c.items) : LiveRequestFails(c, i)
EmptyBatch == \E c \in inflight : EmptyBatchFulfils(c)

EmbNext ==
    \/ CallGenerateEmbedding
    \/ CallGenerateEmbeddings
    \/ RequestSucceeds
    \/ RequestFails
    \/ EmptyBatch

(***************************************************************************)
(* Similarity ranker: cosineSimilarity and findMostSimilar.                *)
(* A thrown Error is the value Threw; a returned number x is Num(x).       *)
(***************************************************************************)
Threw  == [threw |-> TRUE, value |-> 0]
Num(x) == [threw |-> FALSE, value |-> x]

RECURSIVE SumTo(_, _)
SumTo(f, n) == IF n = 0 THEN 0 ELSE f[n] + SumTo(f, n - 1)

\* the loop of cosineSimilarity over i < vec1.length
DotProduct(vec1, vec2) == SumTo([i \in 1..Len(vec1) |-> vec1[i] * vec2[i]], Len(vec1))

\* Math.sqrt on the fixed-point grid: the largest r with r*r <= x
Sqrt(x) == CHOOSE r \in 0..SimScale : r * r <= x /\ (r + 1) * (r + 1) > x

\* the same computation without the length check: the loop reads vec2[i]
\* beyond its end as undefined (NaN), or ignores its tail
cosineSimilarityUnchecked(vec1, vec2) ==
    LET n     == IF Len(vec1) < Len(vec2) THEN Len(vec1) ELSE Len(vec2)
        a     == SubSeq(vec1, 1, n)
        b     == SubSeq(vec2, 1, n)
        dot   == DotProduct(a, b)
        norm1 == DotProduct(a, a)
        norm2 == DotProduct(b, b)
    IN  IF norm1 = 0 \/ norm2 = 0 THEN Num(0)
        ELSE LET q == Sqrt((dot * dot * SimScale * SimScale) \div (norm1 * norm2))
             IN  Num(IF dot < 0 THEN 0 - q ELSE q)

\* the same computation with zero-norm vectors treated as identical
cosineSimilarityZeroNormIsOne(vec1, vec2) ==
    IF Len(vec1) # Len(vec2) THEN Threw
    ELSE LET dotProduct == DotProduct(vec1, vec2)
             norm1      == DotProduct(vec1, vec1)
             norm2      == DotProduct(vec2, vec2)
         IN  IF norm1 = 0 \/ norm2 = 0 THEN Num(SimScale)
             ELSE LET q == Sqrt((dotProduct * dotProduct * SimScale * SimScale)
                                    \div (norm1 * norm2))
                  IN  Num(IF dotProduct < 0 THEN 0 - q ELSE q)

cosineSimilarity(vec1, vec2) ==
    IF Len(vec1) # Len(vec2) THEN Threw
    ELSE LET dotProduct == DotProduct(vec1, vec2)
             norm1      == DotProduct(vec1, vec1)
             norm2      == DotProduct(vec2, vec2)
         IN  IF norm1 = 0 \/ norm2 = 0 THEN Num(0)
             ELSE \* dotProduct / (norm1 * norm2), norms being the square roots
                  LET q == Sqrt((dotProduct * dotProduct * SimScale * SimScale)
                                    \div (norm1 * norm2))
                  IN  Num(IF dotProduct < 0 THEN 0 - q ELSE q)

\* Array.prototype.sort with a comparator (a, b) => b.key - a.key: a stable
\* sort (ECMAScript 2019) into descending order of the key, here by
\* insertion over <<key, element>> pairs.  x goes before y when the
\* comparator is negative, that is when y's key is less than x's.
RECURSIVE InsertStable(_, _)
InsertStable(sorted, x) ==
    IF sorted = <<>> THEN <<x>>
    ELSE IF Head(sorted)[1] - x[1] < 0 THEN <<x>> \o sorted
    ELSE <<Head(sorted)>> \o InsertStable(Tail(sorted), x)

RECURSIVE SortFrom(_, _)
SortFrom(sorted, rest) ==
    IF rest = <<>> THEN sorted
    ELSE SortFrom(InsertStable(sorted, Head(rest)), Tail(rest))

\* a sort that puts an element before the elements it ties with
RECURSIVE InsertUnstable(_, _)
InsertUnstable(sorted, x) ==
    IF sorted = <<>> THEN <<x>>
    ELSE IF Head(sorted)[1] - x[1] <= 0 THEN <<x>> \o sorted
    ELSE <<Head(sorted)>> \o InsertUnstable(Tail(sorted), x)

RECURSIVE SortFromUnstable(_, _)
SortFromUnstable(sorted, rest) ==
    IF rest = <<>> THEN sorted
    ELSE SortFromUnstable(InsertUnstable(sorted, Head(rest)), Tail(rest))

SortDescUnstable(keyed) ==
    LET sorted == SortFromUnstable(<<>>, keyed) IN [k \in 1..Len(sorted) |-> sorted[k][2]]

SortDesc(keyed) ==
    LET sorted == SortFrom(<<>>, keyed) IN [k \in 1..Len(sorted) |-> sorted[k][2]]

\* Array.prototype.slice(0, end)
SliceFromZero(seq, end) ==
    LET k == IF end < 0 THEN (IF Len(seq) + end < 0 THEN 0 ELSE Len(seq) + end)
             ELSE IF end > Len(seq) THEN Len(seq) ELSE end
    IN  SubSeq(seq, 1, k)

\* similarities.sort((a, b) => b.similarity - a.similarity)
SortSimilaritiesUnstable(similarities) ==
    SortDescUnstable([i \in 1..Len(similarities) |-> <<similarities[i].similarity, similarities[i]>>])

SortSimilarities(similarities) ==
    SortDesc([i \in 1..Len(similarities) |-> <<similarities[i].similarity, similarities[i]>>])

\* .slice(0, topK) taken one entry too far
TopKSliceOffByOne(sorted, topK) == SliceFromZero(sorted, topK + 1)

TopKSlice(sorted, topK) == SliceFromZero(sorted, topK)

\* the outcome of findMostSimilar: it throws when a cosineSimilarity throws
findMostSimilar(queryEmbedding, passageEmbeddings, passages, topK) ==
    LET cos == [i \in 1..Len(passageEmbeddings) |->
                    cosineSimilarity(queryEmbedding, passageEmbeddings[i])]
    IN  IF \E i \in 1..Len(cos) : cos[i].threw
        THEN [state |-> "threw", results |-> <<>>]
        ELSE LET similarities == [i \in 1..Len(cos) |->
                                     [index |-> i - 1, similarity |-> cos[i].value]]
                 top == TopKSlice(SortSimilarities(similarities), topK)
             IN  [state |-> "returned",
                  results |-> [k \in 1..Len(top) |->
                                  [text       |-> passages[top[k].index + 1],
                                   similarity |-> top[k].similarity,
                                   index      |-> top[k].index]]]

\* embedding vectors of the ranker's inputs: lengths 3, 2 and 0
Vectors == { <<1, 0, 0>>, <<0, 1, 0>>, <<-1, 0, 0>>, <<1, 1, 0>>, <<0, 0, 0>>, <<1, 0>>, <<>> }
Queries == { <<1, 0, 0>>, <<1, 1, 1>>, <<0, 0, 0>>, <<>> }

\* the passage texts: the i-th passage is the text <<112, 48 + i>> ("p0", "p1", ...)
PassageTexts(n) == [i \in 1..n |-> <<112, 48 + (i - 1)>>]

RankInputs ==
    { [query |-> q, embeddings |-> e, passages |-> PassageTexts(Len(e)), topK |-> k] :
        q \in Queries,
        e \in UNION { [1..n -> Vectors] : n \in 0..MaxPassages },
        k \in -1..(MaxPassages + 1) }

RankPending == [state |-> "pending", results |-> <<>>]

RankInit ==
    /\ rankIn \in RankInputs
    /\ rankOut = RankPending

RankIdle ==
    /\ rankIn = [query |-> <<>>, embeddings |-> <<>>, passages |-> <<>>, topK |-> 0]
    /\ rankOut = RankPending

CallFindMostSimilar ==
    /\ rankOut.state = "pending"
    /\ rankOut' = findMostSimilar(rankIn.query, rankIn.embeddings, rankIn.passages, rankIn.topK)
    /\ UNCHANGED rankIn
    /\ UNCHANGED <<embVars, rrVars, sugVars, rlVars, routeVars, fbVars, tokVars, legVars>>

RankNext == CallFindMostSimilar

(***************************************************************************)
(* RerankingService: rerankPassages.                                       *)
(*                                                                         *)
(* The live backend is an input of the call: backend.outcome is "ok" (the  *)
(* first live attempt succeeds), "retryOk" (it fails and a second attempt, *)
(* where the code makes one, succeeds) or "fail" (every attempt fails);    *)
(* backend.sims are the cosine similarities the live vectors give and      *)
(* backend.randoms the values Math.random() returns.                       *)
(***************************************************************************)
RerankProviders == {"openai", "google-vertex", "mock"}

\* Math.max(0, Math.min(100, x))
Clamp100(x) == IF x < 0 THEN 0 ELSE IF x > 100 * SimScale THEN 100 * SimScale ELSE x

\* Math.max(0, Math.min(100, (similarity + 1) * 50))
ScaleTo100(similarity) == Clamp100((similarity + SimScale) * 50)

\* initializeProvider: which client the constructor creates
openaiClient == rrApiKey # "" /\ rrProvider = "openai"
googleClient == rrApiKey # "" /\ rrProvider = "google-vertex"

\* openaiRerank: the try block with text-search-babbage-doc-001, its catch
\* with text-embedding-3-small, whose failure propagates
openaiRerank(passages, backend) ==
    IF backend.outcome \in {"ok", "retryOk"}
    THEN [threw |-> FALSE, scores |-> [i \in 1..Len(passages) |-> ScaleTo100(backend.sims[i])]]
    ELSE [threw |-> TRUE, scores |-> <<>>]

\* googleVertexRerank: the try block, and a catch that returns
\* Math.random() * 30 + 50 for every passage
googleVertexRerank(passages, backend) ==
    IF backend.outcome = "ok"
    THEN [threw |-> FALSE, scores |-> [i \in 1..Len(passages) |-> ScaleTo100(backend.sims[i])]]
    ELSE [threw |-> FALSE, scores |-> [i \in 1..Len(passages) |-> backend.randoms[i] * 30 + 50 * SimScale]]

\* array[index] || 0
OrZero(array, index) == IF index <= Len(array) THEN array[index] ELSE 0

\* (embeddingScore * 0.7) + (rerankScore * 0.3)
FinalScoreSwapped(embeddingScore, rerankScore) == (3 * embeddingScore + 7 * rerankScore) \div 10

FinalScore(embeddingScore, rerankScore) == (7 * embeddingScore + 3 * rerankScore) \div 10

\* results.sort((a, b) => b.finalScore - a.finalScore)
SortResults(results) ==
    SortDesc([i \in 1..Len(results) |-> <<results[i].finalScore, results[i]>>])

\* results.forEach((result, index) => { result.rank = index + 1 })
UpdateRanksSkipped(sorted) == sorted

UpdateRanks(sorted) == [k \in 1..Len(sorted) |-> [sorted[k] EXCEPT !.rank = k]]

combineScores(passages, embeddingScores, rerankScores) ==
    LET results == [i \in 1..Len(passages) |->
                       LET embeddingScore == OrZero(embeddingScores, i)
                           rerankScore    == OrZero(rerankScores, i)
                       IN  [text           |-> passages[i],
                            originalIndex  |-> i - 1,
                            embeddingScore |-> embeddingScore,
                            rerankScore    |-> rerankScore,
                            finalScore     |-> FinalScore(embeddingScore, rerankScore),
                            rank           |-> i]]
    IN  UpdateRanks(SortResults(results))

\* a variant with a variation of up to 20 points
generateMockRerankingWide(passages, embeddingScores, randoms) ==
    LET embeddingScores100 == [i \in 1..Len(embeddingScores) |-> ScaleTo100(embeddingScores[i])]
        rerankScores == [i \in 1..Len(embeddingScores100) |->
                            LET variation == (randoms[i] - SimScale \div 2) * 40
                            IN  Clamp100(embeddingScores100[i] + variation)]
    IN  combineScores(passages, embeddingScores100, rerankScores)

generateMockReranking(passages, embeddingScores, randoms) ==
    LET embeddingScores100 == [i \in 1..Len(embeddingScores) |-> ScaleTo100(embeddingScores[i])]
        rerankScores == [i \in 1..Len(embeddingScores100) |->
                            LET variation == (randoms[i] - SimScale \div 2) * 20
                            IN  Clamp100(embeddingScores100[i] + variation)]
    IN  combineScores(passages, embeddingScores100, rerankScores)

\* the outcome of rerankPassages: <<results, value of this.usedRealAPI after it>>
rerankPassages(passages, embeddingScores, backend) ==
    IF rrApiKey = "" \/ (~openaiClient /\ ~googleClient)
    THEN <<generateMockReranking(passages, embeddingScores, backend.randoms), rrUsedRealAPI>>
    ELSE LET live == IF rrProvider = "openai" THEN openaiRerank(passages, backend)
                     ELSE googleVertexRerank(passages, backend)
         IN  IF live.threw
             THEN <<generateMockReranking(passages, embeddingScores, backend.randoms), rrUsedRealAPI>>
             ELSE <<combineScores(passages, embeddingScores, live.scores), TRUE>>

\* cosine similarities of the passages to the query, as the routes pass them
EmbeddingSims ==
    {0 - SimScale, 0 - (SimScale \div 2), 0, SimScale \div 10, SimScale \div 5, SimScale}
\* cosine similarities of the live rerank vectors
LiveSims == {0 - SimScale, (4 * SimScale) \div 5}
\* values of Math.random(), in [0, 1)
Randoms == {0, SimScale \div 2, SimScale - 1}

\* a backend that answers draws no random number that matters, and one that
\* fails returns no vectors
Backends(n) ==
    { [outcome |-> o, sims |-> sm, randoms |-> [i \in 1..n |-> 0]] :
        o \in {"ok", "retryOk"}, sm \in [1..n -> LiveSims] }
    \cup
    { [outcome |-> "fail", sims |-> [i \in 1..n |-> 0], randoms |-> r] :
        r \in [1..n -> Randoms] }

RerankInputs ==
    { [passages |-> PassageTexts(Len(e)), embeddingScores |-> e] :
        e \in UNION { [1..n -> EmbeddingSims] : n \in 0..MaxRerank } }

RerankPending == [state |-> "pending", results |-> <<>>, backend |-> "none"]

RrInit ==
    /\ rrProvider \in RerankProviders
    /\ \E arg \in {"", "valid"}, env \in {"", "valid"} :
           rrApiKey = IF arg # "" THEN arg
                      ELSE IF rrProvider \in {"openai", "google-vertex"} THEN env ELSE ""
    /\ rrUsedRealAPI = FALSE
    /\ rrIn \in RerankInputs
    /\ rrOut = RerankPending

RrIdle ==
    /\ rrProvider = "mock" /\ rrApiKey = "" /\ rrUsedRealAPI = FALSE
    /\ rrIn = [passages |-> <<>>, embeddingScores |-> <<>>]
    /\ rrOut = RerankPending

\* rrOut.backend records what the live backend did in the call: "none" (no
\* client, no live call), "ok", "retryOk" or "fail"
CallRerankPassages ==
    /\ rrOut.state = "pending"
    /\ \E backend \in Backends(Len(rrIn.passages)) :
          LET out == rerankPassages(rrIn.passages, rrIn.embeddingScores, backend)
          IN  /\ rrOut' = [state   |-> "returned",
                           results |-> out[1],
                           backend |-> IF openaiClient \/ googleClient
                                       THEN (IF backend.outcome = "retryOk" /\ googleClient
                                             THEN "fail" ELSE backend.outcome)
                                       ELSE "none"]
              /\ rrUsedRealAPI' = out[2]
    /\ UNCHANGED <<rrProvider, rrApiKey, rrIn>>
    /\ UNCHANGED <<embVars, rankVars, sugVars, rlVars, routeVars, fbVars, tokVars, legVars>>

RrNext == CallRerankPassages

(***************************************************************************)
(* Specifications: one per component, the others idle.                     *)
(***************************************************************************)

(***************************************************************************)
(* Token suggestion analyzer: tokenizer, tokenSimilarity and               *)
(* generateTokenSuggestions.  A token similarity is the exact fraction     *)
(* <<numerator, denominator>>.                                             *)
(***************************************************************************)
\* the characters \p{L} and \p{N} match, among those the model uses
IsWordChar(c) == (c >= 48 /\ c <= 57) \/ (c >= 65 /\ c <= 90) \/ (c >= 97 /\ c <= 122)

\* .replace(/\s+/g, ' ')
RECURSIVE CollapseSpaces(_)
CollapseSpaces(text) ==
    IF text = <<>> THEN <<>>
    ELSE IF IsSpace(Head(text))
         THEN IF Len(text) > 1 /\ IsSpace(text[2])
              THEN CollapseSpaces(Tail(text))
              ELSE <<32>> \o CollapseSpaces(Tail(text))
         ELSE <<Head(text)>> \o CollapseSpaces(Tail(text))

\* String.prototype.trim
RECURSIVE Trim(_)
Trim(text) ==
    IF text = <<>> THEN <<>>
    ELSE IF IsSpace(Head(text)) THEN Trim(Tail(text))
    ELSE IF IsSpace(text[Len(text)]) THEN Trim(SubSeq(text, 1, Len(text) - 1))
    ELSE text

preprocessText(text) ==
    LET lower    == toLowerCase(text)
        replaced == [i \in 1..Len(lower) |->
                        IF IsWordChar(lower[i]) \/ IsSpace(lower[i]) THEN lower[i] ELSE 32]
    IN  Trim(CollapseSpaces(replaced))

normalizeWord(word) == Trim(SelectSeq(toLowerCase(word), IsWordChar))

tokenizeWords(text) ==
    LET words == SplitWords(preprocessText(text), <<>>)
    IN  [i \in 1..Len(words) |-> normalizeWord(words[i])]

Min3(a, b, c) == IF a <= b /\ a <= c THEN a ELSE IF b <= c THEN b ELSE c

\* row j of the matrix, filled left to right from the row above it; column i
\* of a row is the element i + 1 of the sequence
RECURSIVE EditRow(_, _, _, _)
EditRow(row, above, str1, char2) ==
    IF Len(row) = Len(str1) + 1 THEN row
    ELSE LET i         == Len(row)
             indicator == IF str1[i] = char2 THEN 0 ELSE 1
         IN  EditRow(Append(row, Min3(row[i] + 1, above[i + 1] + 1, above[i] + indicator)),
                     above, str1, char2)

RECURSIVE EditRows(_, _, _)
EditRows(above, str1, rest2) ==
    IF rest2 = <<>> THEN above
    ELSE EditRows(EditRow(<<above[1] + 1>>, above, str1, Head(rest2)), str1, Tail(rest2))

calculateEditDistance(str1, str2) ==
    EditRows([i \in 1..(Len(str1) + 1) |-> i - 1], str1, str2)[Len(str1) + 1]

Chars(token) == { token[i] : i \in 1..Len(token) }

\* (editSimilarity + jaccardSimilarity) / 2 as a fraction
calculateTokenSimilarity(token1, token2) ==
    LET editDist == calculateEditDistance(token1, token2)
        maxLen   == IF Len(token1) >= Len(token2) THEN Len(token1) ELSE Len(token2)
        intersection == Cardinality(Chars(token1) \cap Chars(token2))
        union        == Cardinality(Chars(token1) \cup Chars(token2))
    IN  IF maxLen = 0 THEN <<1, 1>>
        ELSE <<(maxLen - editDist) * union + intersection * maxLen, 2 * maxLen * union>>

\* similarity > tenths / 10
GreaterThan(similarity, tenths) == 10 * similarity[1] > tenths * similarity[2]

\* the wordMap of getCommonWordVariations
wordMap ==
    <<
       \* run: running, runs, ran
       <<<<114, 117, 110>>,
         <<<<114, 117, 110, 110, 105, 110, 103>>,
           <<114, 117, 110, 115>>,
           <<114, 97, 110>>>>>>,
       \* walk: walking, walks, walked
       <<<<119, 97, 108, 107>>,
         <<<<119, 97, 108, 107, 105, 110, 103>>,
           <<119, 97, 108, 107, 115>>,
           <<119, 97, 108, 107, 101, 100>>>>>>,
       \* go: going, goes, went, gone
       <<<<103, 111>>,
         <<<<103, 111, 105, 110, 103>>,
           <<103, 111, 101, 115>>,
           <<119, 101, 110, 116>>,
           <<103, 111, 110, 101>>>>>>,
       \* see: seeing, sees, saw, seen
       <<<<115, 101, 101>>,
         <<<<115, 101, 101, 105, 110, 103>>,
           <<115, 101, 101, 115>>,
           <<115, 97, 119>>,
           <<115, 101, 101, 110>>>>>>,
       \* come: coming, comes, came
       <<<<99, 111, 109, 101>>,
         <<<<99, 111, 109, 105, 110, 103>>,
           <<99, 111, 109, 101, 115>>,
           <<99, 97, 109, 101>>>>>>,
       \* get: getting, gets, got, gotten
       <<<<103, 101, 116>>,
         <<<<103, 101, 116, 116, 105, 110, 103>>,
           <<103, 101, 116, 115>>,
           <<103, 111, 116>>,
           <<103, 111, 116, 116, 101, 110>>>>>>,
       \* make: making, makes, made
       <<<<109, 97, 107, 101>>,
         <<<<109, 97, 107, 105, 110, 103>>,
           <<109, 97, 107, 101, 115>>,
           <<109, 97, 100, 101>>>>>>,
       \* take: taking, takes, took, taken
       <<<<116, 97, 107, 101>>,
         <<<<116, 97, 107, 105, 110, 103>>,
           <<116, 97, 107, 101, 115>>,
           <<116, 111, 111, 107>>,
           <<116, 97, 107, 101, 110>>>>>>,
       \* give: giving, gives, gave, given
       <<<<103, 105, 118, 101>>,
         <<<<103, 105, 118, 105, 110, 103>>,
           <<103, 105, 118, 101, 115>>,
           <<103, 97, 118, 101>>,
           <<103, 105, 118, 101, 110>>>>>>,
       \* know: knowing, knows, knew, known
       <<<<107, 110, 111, 119>>,
         <<<<107, 110, 111, 119, 105, 110, 103>>,
           <<107, 110, 111, 119, 115>>,
           <<107, 110, 101, 119>>,
           <<107, 110, 111, 119, 110>>>>>>
    >>

getCommonWordVariations(word) ==
    LET lowerWord == toLowerCase(word)
        hits == SelectSeq(wordMap, LAMBDA entry : entry[1] = lowerWord)
    IN  IF hits = <<>> THEN <<>> ELSE hits[1][2]

endsWith(word, suffix) ==
    /\ Len(word) >= Len(suffix)
    /\ SubSeq(word, Len(word) - Len(suffix) + 1, Len(word)) = suffix

\* word.slice(0, -n)
SliceOff(word, n) == SubSeq(word, 1, Len(word) - n)

getMorphologicalVariations(word) ==
    LET ing == IF endsWith(word, <<105, 110, 103>>)
               THEN <<SliceOff(word, 3), SliceOff(word, 3) \o <<101>>>> ELSE <<>>
        ed  == IF endsWith(word, <<101, 100>>)
               THEN <<SliceOff(word, 2), SliceOff(word, 2) \o <<101>>>> ELSE <<>>
        s   == IF endsWith(word, <<115>>) /\ Len(word) > 3
               THEN <<SliceOff(word, 1)>> ELSE <<>>
        ly  == IF endsWith(word, <<108, 121>>)
               THEN <<SliceOff(word, 2)>> ELSE <<>>
    IN  SelectSeq(ing \o ed \o s \o ly, LAMBDA v : Len(v) > 2)

\* Set.prototype.add on a set kept in insertion order
SetAdd(variations, value) ==
    IF \E i \in 1..Len(variations) : variations[i] = value
    THEN variations ELSE Append(variations, value)

RECURSIVE AddAll(_, _)
AddAll(variations, values) ==
    IF values = <<>> THEN variations
    ELSE AddAll(SetAdd(variations, Head(values)), Tail(values))

\* the number of suggestions generateSemanticVariations keeps
MaxSuggestions == 5

\* a variant whose query-token rule accepts a similarity above 0.2
generateSemanticVariationsLooseQuery(token, queryTokens) ==
    LET common  == SelectSeq(getCommonWordVariations(token),
                       LAMBDA v : GreaterThan(calculateTokenSimilarity(v, token), 3))
        morpho  == SelectSeq(getMorphologicalVariations(token),
                       LAMBDA v : GreaterThan(calculateTokenSimilarity(v, token), 4))
        similar == SelectSeq(queryTokens,
                       LAMBDA q : GreaterThan(calculateTokenSimilarity(token, q), 2))
        variations == AddAll(AddAll(AddAll(<<>>, common), morpho), similar)
    IN  SliceFromZero(variations, MaxSuggestions)

generateSemanticVariations(token, queryTokens) ==
    LET common  == SelectSeq(getCommonWordVariations(token),
                       LAMBDA v : GreaterThan(calculateTokenSimilarity(v, token), 3))
        morpho  == SelectSeq(getMorphologicalVariations(token),
                       LAMBDA v : GreaterThan(calculateTokenSimilarity(v, token), 4))
        similar == SelectSeq(queryTokens,
                       LAMBDA q : GreaterThan(calculateTokenSimilarity(token, q), 5))
        variations == AddAll(AddAll(AddAll(<<>>, common), morpho), similar)
    IN  SliceFromZero(variations, MaxSuggestions)

\* a variant that looks at the first query token only
hasQueryMatchFirstOnly(token, queryTokens) ==
    /\ Len(queryTokens) > 0
    /\ GreaterThan(calculateTokenSimilarity(token, queryTokens[1]), 5)

hasQueryMatch(token, queryTokens) ==
    \E k \in 1..Len(queryTokens) :
        GreaterThan(calculateTokenSimilarity(token, queryTokens[k]), 5)

\* the entry generateTokenSuggestions pushes for a token, if it pushes one
SuggestionEntryAlways(token, index, queryTokens) ==
    IF hasQueryMatch(token, queryTokens) THEN <<>>
    ELSE <<[originalToken |-> token,
            position      |-> index,
            suggestions   |-> generateSemanticVariations(token, queryTokens),
            reason        |-> "No semantic match with query tokens"]>>

SuggestionEntry(token, index, queryTokens) ==
    IF hasQueryMatch(token, queryTokens) THEN <<>>
    ELSE LET semanticSuggestions == generateSemanticVariations(token, queryTokens)
         IN  IF Len(semanticSuggestions) > 0
             THEN <<[originalToken |-> token,
                     position      |-> index,
                     suggestions   |-> semanticSuggestions,
                     reason        |-> "No semantic match with query tokens"]>>
             ELSE <<>>

generateTokenSuggestions(text, query) ==
    LET textTokens  == tokenizeWords(text)
        queryTokens == tokenizeWords(query)
    IN  Concat([i \in 1..Len(textTokens) |-> SuggestionEntry(textTokens[i], i - 1, queryTokens)])

\* "the quick fox", "quick brown fox", "Running, go!", "walked makes", "go see", "slowly runs", "take Take", "..."
SuggestionTexts ==
    <<
       <<116, 104, 101, 32, 113, 117, 105, 99, 107, 32, 102, 111, 120>>,
       <<113, 117, 105, 99, 107, 32, 98, 114, 111, 119, 110, 32, 102, 111, 120>>,
       <<82, 117, 110, 110, 105, 110, 103, 44, 32, 103, 111, 33>>,
       <<119, 97, 108, 107, 101, 100, 32, 109, 97, 107, 101, 115>>,
       <<103, 111, 32, 115, 101, 101>>,
       <<115, 108, 111, 119, 108, 121, 32, 114, 117, 110, 115>>,
       <<116, 97, 107, 101, 32, 84, 97, 107, 101>>,
       <<46, 46, 46>>
    >>

SugPending == [state |-> "pending", suggestions |-> <<>>]

SugInit ==
    /\ sugIn \in { [text |-> SuggestionTexts[i], query |-> SuggestionTexts[j]] :
                     i, j \in 1..Len(SuggestionTexts) }
    /\ sugOut = SugPending

SugIdle ==
    /\ sugIn = [text |-> <<>>, query |-> <<>>]
    /\ sugOut = SugPending

CallGenerateTokenSuggestions ==
    /\ sugOut.state = "pending"
    /\ sugOut' = [state |-> "returned",
                  suggestions |-> generateTokenSuggestions(sugIn.text, sugIn.query)]
    /\ UNCHANGED sugIn
    /\ UNCHANGED <<embVars, rankVars, rrVars, rlVars, routeVars, fbVars, tokVars, legVars>>

SugNext == CallGenerateTokenSuggestions

(***************************************************************************)
(* Rate limiter (src/lib/rate-limit.ts): rateLimit on the KV store, with   *)
(* databaseRateLimit as its fallback.  Calls of one user run concurrently: *)
(* a call suspends at each await, and the KV store and the database serve  *)
(* one operation at a time.  Time is counted in ticks of 30 seconds.       *)
(***************************************************************************)
\* the 60 seconds of the TTL and of oneMinuteAgo, in ticks
RateWindow == 2

\* the routes that call rateLimit: similarity passes user.id, rerank passes
\* `rerank_${session.user.email}`, which is no id of the user table
RateRoutes == {"similarity", "rerank"}

\* prisma.user.findUnique({ where: { id: userId } }) finds a row
UserFound == rlRoute = "similarity"

RlInit ==
    /\ rlRoute \in RateRoutes
    /\ rlLimit \in 1..MaxLimit
    /\ kvCount = 0
    /\ kvExpireAt = 0
    /\ dbUser = [requestsThisMinute |-> 0, minuteResetAt |-> 0]
    /\ rlCalls = {}
    /\ rlHistory = {}
    /\ rlNow = 0
    /\ rlStarted = 0

RlIdle ==
    /\ rlRoute = "similarity" /\ rlLimit = 1
    /\ kvCount = 0 /\ kvExpireAt = 0
    /\ dbUser = [requestsThisMinute |-> 0, minuteResetAt |-> 0]
    /\ rlCalls = {} /\ rlHistory = {} /\ rlNow = 0 /\ rlStarted = 0

\* the call moves on to its next await
Resume(c, d) == rlCalls' = (rlCalls \ {c}) \cup {d}

\* the call returns { success, ... }
Return(c, success) ==
    /\ rlCalls' = rlCalls \ {c}
    /\ rlHistory' = rlHistory \cup
           {[id |-> c.id, arrived |-> c.arrived, returned |-> rlNow,
             success |-> success, path |-> c.path]}

\* rateLimit(userId, limit) up to `await kv.get(key)`
StartRateLimit ==
    /\ rlStarted < MaxRateCalls
    /\ rlStarted' = rlStarted + 1
    /\ rlCalls' = rlCalls \cup
           {[id |-> rlStarted + 1, pc |-> "get", arrived |-> rlNow, path |-> "kv",
             current |-> 0, now |-> 0, user |-> dbUser]}
    /\ UNCHANGED <<rlRoute, rlLimit, kvCount, kvExpireAt, dbUser, rlHistory, rlNow>>
    /\ UNCHANGED <<embVars, rankVars, rrVars, sugVars, routeVars, fbVars, tokVars, legVars>>

\* const current = await kv.get(key) || 0; if (current >= limit) ...
KvGet(c) ==
    /\ c \in rlCalls /\ c.pc = "get"
    /\ Resume(c, [c EXCEPT !.current = kvCount,
                           !.pc = IF kvCount >= rlLimit THEN "ttl" ELSE "incr"])
    /\ UNCHANGED <<rlRoute, rlLimit, kvCount, kvExpireAt, dbUser, rlHistory, rlNow, rlStarted>>
    /\ UNCHANGED <<embVars, rankVars, rrVars, sugVars, routeVars, fbVars, tokVars, legVars>>

\* const ttl = await kv.ttl(key); return { success: false, ... }
KvTtl(c) ==
    /\ c \in rlCalls /\ c.pc = "ttl"
    /\ Return(c, FALSE)
    /\ UNCHANGED <<rlRoute, rlLimit, kvCount, kvExpireAt, dbUser, rlNow, rlStarted>>
    /\ UNCHANGED <<embVars, rankVars, rrVars, sugVars, routeVars, fbVars, tokVars, legVars>>

\* pipe.incr(key); pipe.expire(key, 60); await pipe.exec(); return { success: true, ... }
KvIncrExpire(c) ==
    /\ c \in rlCalls /\ c.pc = "incr"
    /\ kvCount' = kvCount + 1
    /\ kvExpireAt' = rlNow + RateWindow
    /\ Return(c, TRUE)
    /\ UNCHANGED <<rlRoute, rlLimit, dbUser, rlNow, rlStarted>>
    /\ UNCHANGED <<embVars, rankVars, rrVars, sugVars, routeVars, fbVars, tokVars, legVars>>

\* a KV operation throws: catch (error) { return await databaseRateLimit(...) },
\* which runs up to `await prisma.user.findUnique`
KvThrows(c) ==
    /\ c \in rlCalls /\ c.pc \in {"get", "ttl", "incr"}
    /\ Resume(c, [c EXCEPT !.pc = "findUnique", !.path = "db", !.now = rlNow])
    /\ UNCHANGED <<rlRoute, rlLimit, kvCount, kvExpireAt, dbUser, rlHistory, rlNow, rlStarted>>
    /\ UNCHANGED <<embVars, rankVars, rrVars, sugVars, routeVars, fbVars, tokVars, legVars>>

\* const user = await prisma.user.findUnique(...) and the tests that follow
DbFindUnique(c) ==
    /\ c \in rlCalls /\ c.pc = "findUnique"
    /\ IF ~UserFound
       THEN Return(c, FALSE)
       ELSE IF dbUser.minuteResetAt < c.now - RateWindow
       THEN Resume(c, [c EXCEPT !.pc = "updateReset", !.user = dbUser]) /\ UNCHANGED rlHistory
       ELSE IF dbUser.requestsThisMinute >= rlLimit
       THEN Return(c, FALSE)
       ELSE Resume(c, [c EXCEPT !.pc = "updateIncrement", !.user = dbUser]) /\ UNCHANGED rlHistory
    /\ UNCHANGED <<rlRoute, rlLimit, kvCount, kvExpireAt, dbUser, rlNow, rlStarted>>
    /\ UNCHANGED <<embVars, rankVars, rrVars, sugVars, routeVars, fbVars, tokVars, legVars>>

\* await prisma.user.update({ data: { requestsThisMinute: 1, minuteResetAt: now } })
DbUpdateReset(c) ==
    /\ c \in rlCalls /\ c.pc = "updateReset"
    /\ dbUser' = [requestsThisMinute |-> 1, minuteResetAt |-> c.now]
    /\ Return(c, TRUE)
    /\ UNCHANGED <<rlRoute, rlLimit, kvCount, kvExpireAt, rlNow, rlStarted>>
    /\ UNCHANGED <<embVars, rankVars, rrVars, sugVars, routeVars, fbVars, tokVars, legVars>>

\* await prisma.user.update({ data: { requestsThisMinute: user.requestsThisMinute + 1 } })
DbUpdateIncrement(c) ==
    /\ c \in rlCalls /\ c.pc = "updateIncrement"
    /\ dbUser' = [dbUser EXCEPT !.requestsThisMinute = c.user.requestsThisMinute + 1]
    /\ Return(c, TRUE)
    /\ UNCHANGED <<rlRoute, rlLimit, kvCount, kvExpireAt, rlNow, rlStarted>>
    /\ UNCHANGED <<embVars, rankVars, rrVars, sugVars, routeVars, fbVars, tokVars, legVars>>

\* 30 seconds pass; the KV store drops the key when its TTL has run out
Tick ==
    /\ rlNow < MaxTime
    /\ rlNow' = rlNow + 1
    /\ IF kvExpireAt # 0 /\ rlNow + 1 >= kvExpireAt
       THEN kvCount' = 0 /\ kvExpireAt' = 0
       ELSE UNCHANGED <<kvCount, kvExpireAt>>
    /\ UNCHANGED <<rlRoute, rlLimit, dbUser, rlCalls, rlHistory, rlStarted>>
    /\ UNCHANGED <<embVars, rankVars, rrVars, sugVars, routeVars, fbVars, tokVars, legVars>>


RlNext ==
    \/ StartRateLimit
    \/ \E c \in rlCalls : KvGet(c)
    \/ \E c \in rlCalls : KvTtl(c)
    \/ \E c \in rlCalls : KvIncrExpire(c)
    \/ \E c \in rlCalls : KvThrows(c)
    \/ \E c \in rlCalls : DbFindUnique(c)
    \/ \E c \in rlCalls : DbUpdateReset(c)
    \/ \E c \in rlCalls : DbUpdateIncrement(c)
    \/ Tick

(***************************************************************************)
(* The browser page and the server routes: where the API key the user      *)
(* enters travels, and which service instance serves which request.        *)
(***************************************************************************)
\* the module-level `const embeddingService = new EmbeddingService()` of the
\* suggestions route
SharedService == <<"suggestions/route.ts embeddingService", 0>>

\* the instance a handler constructs with `new` while it serves request id
OwnService(class, id) == <<class, id>>

RouteInit ==
    /\ session \in BOOLEAN
    /\ uiApiKey = ""
    /\ uiApiKeyValid = "null"
    /\ lsApiKey = ""
    /\ httpInFlight = {}
    /\ httpLog = {}
    /\ serverKeys = {}
    /\ svcUse = {}

RouteIdle ==
    /\ session = FALSE /\ uiApiKey = "" /\ uiApiKeyValid = "null" /\ lsApiKey = ""
    /\ httpInFlight = {} /\ httpLog = {} /\ serverKeys = {} /\ svcUse = {}

\* validateApiKey(key): /^AIza[0-9A-Za-z_-]{35}$/.test(key)
validateApiKey(key) == key = "valid"

handleApiKeyChange(key) ==
    /\ uiApiKey' = key
    /\ uiApiKeyValid' = IF key = "" THEN "null"
                        ELSE IF validateApiKey(key) THEN "true" ELSE "false"
    /\ UNCHANGED <<session, lsApiKey, httpInFlight, httpLog, serverKeys, svcUse>>
    /\ UNCHANGED <<embVars, rankVars, rrVars, sugVars, rlVars, fbVars, tokVars, legVars>>

handleApiKeySubmit ==
    /\ lsApiKey' = IF uiApiKeyValid = "true" THEN uiApiKey ELSE lsApiKey
    /\ UNCHANGED <<session, uiApiKey, uiApiKeyValid, httpInFlight, httpLog, serverKeys, svcUse>>
    /\ UNCHANGED <<embVars, rankVars, rrVars, sugVars, rlVars, fbVars, tokVars, legVars>>

clearApiKey ==
    /\ uiApiKey' = ""
    /\ uiApiKeyValid' = "null"
    /\ lsApiKey' = ""
    /\ UNCHANGED <<session, httpInFlight, httpLog, serverKeys, svcUse>>
    /\ UNCHANGED <<embVars, rankVars, rrVars, sugVars, rlVars, fbVars, tokVars, legVars>>

\* fetch(route, { body: JSON.stringify({ ..., apiKey: apiKey || undefined }) })
Fetch(route) ==
    /\ Cardinality(httpLog) < MaxHttp
    /\ LET request == [id |-> Cardinality(httpLog) + 1, route |-> route, apiKey |-> uiApiKey]
       IN  /\ httpLog' = httpLog \cup {request}
           /\ httpInFlight' = httpInFlight \cup {[request |-> request, pc |-> "sent"]}

\* the signed-in page posts to /api/similarity, the other to the legacy route
handleSubmit ==
    /\ Fetch(IF session THEN "similarity" ELSE "similarity-legacy")
    /\ UNCHANGED <<session, uiApiKey, uiApiKeyValid, lsApiKey, serverKeys, svcUse>>
    /\ UNCHANGED <<embVars, rankVars, rrVars, sugVars, rlVars, fbVars, tokVars, legVars>>

fetchSuggestions ==
    /\ Fetch("suggestions")
    /\ UNCHANGED <<session, uiApiKey, uiApiKeyValid, lsApiKey, serverKeys, svcUse>>
    /\ UNCHANGED <<embVars, rankVars, rrVars, sugVars, rlVars, fbVars, tokVars, legVars>>

handleRerank ==
    /\ session
    /\ Fetch("rerank")
    /\ UNCHANGED <<session, uiApiKey, uiApiKeyValid, lsApiKey, serverKeys, svcUse>>
    /\ UNCHANGED <<embVars, rankVars, rrVars, sugVars, rlVars, fbVars, tokVars, legVars>>

\* a handler that reaches its first await on a service it obtained
Serve(h, services, keys) ==
    /\ httpInFlight' = (httpInFlight \ {h}) \cup {[h EXCEPT !.pc = "serving"]}
    /\ svcUse' = svcUse \cup { <<svc, h.request.id>> : svc \in services }
    /\ serverKeys' = serverKeys \cup keys

\* a handler that responds
Respond(h) == httpInFlight' = httpInFlight \ {h}

\* POST of /api/similarity up to `await Promise.all([...])`: the body's apiKey
\* is not read
SimilarityPOST(h) ==
    /\ h \in httpInFlight /\ h.pc = "sent" /\ h.request.route = "similarity"
    /\ \E rateLimitSuccess \in BOOLEAN :
          IF ~session \/ ~rateLimitSuccess
          THEN Respond(h) /\ UNCHANGED <<svcUse, serverKeys>>
          ELSE Serve(h, {OwnService("EmbeddingService", h.request.id)}, {})
    /\ UNCHANGED <<session, uiApiKey, uiApiKeyValid, lsApiKey, httpLog>>
    /\ UNCHANGED <<embVars, rankVars, rrVars, sugVars, rlVars, fbVars, tokVars, legVars>>

\* POST of /api/similarity-legacy up to `await Promise.all([...])`
LegacyPOST(h) ==
    /\ h \in httpInFlight /\ h.pc = "sent" /\ h.request.route = "similarity-legacy"
    /\ Serve(h, {OwnService("EmbeddingService", h.request.id)}, {h.request.apiKey} \ {""})
    /\ UNCHANGED <<session, uiApiKey, uiApiKeyValid, lsApiKey, httpLog>>
    /\ UNCHANGED <<embVars, rankVars, rrVars, sugVars, rlVars, fbVars, tokVars, legVars>>

\* POST of /api/rerank up to its first await on the services
RerankPOST(h) ==
    /\ h \in httpInFlight /\ h.pc = "sent" /\ h.request.route = "rerank"
    /\ \E rateLimitSuccess \in BOOLEAN :
          IF ~session \/ ~rateLimitSuccess
          THEN Respond(h) /\ UNCHANGED <<svcUse, serverKeys>>
          ELSE Serve(h, {OwnService("EmbeddingService", h.request.id),
                         OwnService("RerankingService", h.request.id)}, {})
    /\ UNCHANGED <<session, uiApiKey, uiApiKeyValid, lsApiKey, httpLog>>
    /\ UNCHANGED <<embVars, rankVars, rrVars, sugVars, rlVars, fbVars, tokVars, legVars>>

\* POST of /api/suggestions: const service = apiKey ? new EmbeddingService(apiKey)
\* : embeddingService; service.generateTokenSuggestions(text, query)
SuggestionsPOST(h) ==
    /\ h \in httpInFlight /\ h.pc = "sent" /\ h.request.route = "suggestions"
    /\ LET service == IF h.request.apiKey # ""
                      THEN OwnService("EmbeddingService", h.request.id)
                      ELSE SharedService
       IN  svcUse' = svcUse \cup {<<service, h.request.id>>}
    /\ serverKeys' = serverKeys \cup ({h.request.apiKey} \ {""})
    /\ Respond(h)
    /\ UNCHANGED <<session, uiApiKey, uiApiKeyValid, lsApiKey, httpLog>>
    /\ UNCHANGED <<embVars, rankVars, rrVars, sugVars, rlVars, fbVars, tokVars, legVars>>

\* the rest of a handler: service.wasRealAPIUsed(), NextResponse.json(...)
RoutePOSTReturns(h) ==
    /\ h \in httpInFlight /\ h.pc = "serving"
    /\ Respond(h)
    /\ UNCHANGED <<session, uiApiKey, uiApiKeyValid, lsApiKey, httpLog, serverKeys, svcUse>>
    /\ UNCHANGED <<embVars, rankVars, rrVars, sugVars, rlVars, fbVars, tokVars, legVars>>


RouteNext ==
    \/ \E key \in KeyValues : handleApiKeyChange(key)
    \/ handleApiKeySubmit
    \/ clearApiKey
    \/ handleSubmit
    \/ fetchSuggestions
    \/ handleRerank
    \/ \E h \in httpInFlight : SimilarityPOST(h)
    \/ \E h \in httpInFlight : LegacyPOST(h)
    \/ \E h \in httpInFlight : RerankPOST(h)
    \/ \E h \in httpInFlight : SuggestionsPOST(h)
    \/ \E h \in httpInFlight : RoutePOSTReturns(h)

(***************************************************************************)
(* The fallback generator as a function: generateMockEmbedding applied to  *)
(* two texts on one instance.                                              *)
(***************************************************************************)
\* "a b", "A  b", "a, b", "Ab", "ab", "...", "", "walked"
FallbackTexts ==
    <<
       <<97, 32, 98>>,
       <<65, 32, 32, 98>>,
       <<97, 44, 32, 98>>,
       <<65, 98>>,
       <<97, 98>>,
       <<46, 46, 46>>,
       <<>>,
       <<119, 97, 108, 107, 101, 100>>
    >>

FbPending == [state |-> "pending", vectors |-> <<>>]

FbInit ==
    /\ fbIn \in { [config |-> c, texts |-> <<FallbackTexts[i], FallbackTexts[j]>>] :
                    c \in Configs, i, j \in 1..Len(FallbackTexts) }
    /\ fbOut = FbPending

FbIdle ==
    /\ fbIn = [config |-> <<"google", "gemini-embedding-001">>, texts |-> <<>>]
    /\ fbOut = FbPending

CallGenerateMockEmbedding ==
    /\ fbOut.state = "pending"
    /\ fbOut' = [state   |-> "returned",
                 vectors |-> [i \in 1..Len(fbIn.texts) |->
                                 generateMockEmbedding(fbIn.config[1], fbIn.config[2],
                                                       fbIn.texts[i])]]
    /\ UNCHANGED fbIn
    /\ UNCHANGED <<embVars, rankVars, rrVars, sugVars, rlVars, routeVars, tokVars, legVars>>

FbNext == CallGenerateMockEmbedding

(***************************************************************************)
(* calculateTokenSimilarity as a function of two tokens, in the            *)
(* provider-configurable service and in src/lib/embeddings.ts.             *)
(***************************************************************************)
\* NaN: the quotient 0 / 0
NaN == <<0, 0>>

\* src/lib/embeddings.ts: (jaccardSimilarity + editSimilarity) / 2 as a fraction
calculateTokenSimilarityLegacy(token1, token2) ==
    LET set1         == Chars(toLowerCase(token1))
        set2         == Chars(toLowerCase(token2))
        intersection == Cardinality(set1 \cap set2)
        union        == Cardinality(set1 \cup set2)
        editDistance == calculateEditDistance(toLowerCase(token1), toLowerCase(token2))
        maxLength    == IF Len(token1) >= Len(token2) THEN Len(token1) ELSE Len(token2)
    IN  IF union = 0 THEN NaN
        ELSE IF maxLength > 0
             THEN <<intersection * maxLength + (maxLength - editDistance) * union,
                    2 * maxLength * union>>
             ELSE <<intersection, 2 * union>>

\* "", "a", "ab", "ba", "abc", "run", "go", "see"
Tokens ==
    { <<>>,
      <<97>>,
      <<97, 98>>,
      <<98, 97>>,
      <<97, 98, 99>>,
      <<114, 117, 110>>,
      <<103, 111>>,
      <<115, 101, 101>> }

TokPending == [state |-> "pending", version |-> "none", similarity |-> <<0, 1>>]

TokInit ==
    /\ tokIn \in [token1 : Tokens, token2 : Tokens]
    /\ tokOut = TokPending

TokIdle ==
    /\ tokIn = [token1 |-> <<>>, token2 |-> <<>>]
    /\ tokOut = TokPending

CallCalculateTokenSimilarity ==
    /\ tokOut.state = "pending"
    /\ tokOut' = [state      |-> "returned",
                  version    |-> "part_007",
                  similarity |-> calculateTokenSimilarity(tokIn.token1, tokIn.token2)]
    /\ UNCHANGED tokIn
    /\ UNCHANGED <<embVars, rankVars, rrVars, sugVars, rlVars, routeVars, fbVars, legVars>>

CallCalculateTokenSimilarityLegacy ==
    /\ tokOut.state = "pending"
    /\ tokOut' = [state      |-> "returned",
                  version    |-> "lib/embeddings.ts",
                  similarity |-> calculateTokenSimilarityLegacy(tokIn.token1, tokIn.token2)]
    /\ UNCHANGED tokIn
    /\ UNCHANGED <<embVars, rankVars, rrVars, sugVars, rlVars, routeVars, fbVars, legVars>>

TokNext ==
    \/ CallCalculateTokenSimilarity
    \/ CallCalculateTokenSimilarityLegacy

(***************************************************************************)
(* The EmbeddingService of src/lib/embeddings.ts: one model, the           *)
(* credential read from the environment.  generateEmbeddings maps          *)
(* generateEmbedding over the texts and awaits Promise.all; every          *)
(* generateEmbedding suspends at its embedContent request.                 *)
(***************************************************************************)
LegNoCall ==
    [n |-> 0, state |-> "none", method |-> "none", texts |-> <<>>, live |-> <<>>,
     result |-> <<>>]

\* the vector generateEmbedding resolves with: its producer and its length
LegacyVector(src, text) == [src |-> src, text |-> text, len |-> 768]

LegInit ==
    /\ GOOGLE_API_KEY \in BOOLEAN
    /\ legCall = LegNoCall

LegIdle ==
    /\ GOOGLE_API_KEY = FALSE
    /\ legCall = LegNoCall

\* the synchronous part of a call: without the credential every
\* generateEmbedding returns the mock embedding; with it every one issues
\* its request
LegacyStarted(method, texts) ==
    IF ~GOOGLE_API_KEY \/ texts = <<>>
    THEN [n |-> legCall.n + 1, state |-> "resolved", method |-> method,
          texts |-> texts, live |-> <<>>,
          result |-> [i \in 1..Len(texts) |-> LegacyVector("mock", texts[i])]]
    ELSE [n |-> legCall.n + 1, state |-> "pending", method |-> method,
          texts |-> texts, live |-> [i \in 1..Len(texts) |-> "pending"],
          result |-> <<>>]

\* calls are made one after the other, each when the requests of the one
\* before it have settled
LegacyGenerateEmbedding ==
    /\ legCall.n < MaxLegacyCalls
    /\ \A i \in 1..Len(legCall.live) : legCall.live[i] # "pending"
    /\ \E text \in Texts : legCall' = LegacyStarted("generateEmbedding", <<text>>)
    /\ UNCHANGED GOOGLE_API_KEY
    /\ UNCHANGED <<embVars, rankVars, rrVars, sugVars, rlVars, routeVars, fbVars, tokVars>>

LegacyGenerateEmbeddings ==
    /\ legCall.n < MaxLegacyCalls
    /\ \A i \in 1..Len(legCall.live) : legCall.live[i] # "pending"
    /\ \E texts \in Batches : legCall' = LegacyStarted("generateEmbeddings", texts)
    /\ UNCHANGED GOOGLE_API_KEY
    /\ UNCHANGED <<embVars, rankVars, rrVars, sugVars, rlVars, routeVars, fbVars, tokVars>>

\* embedContent resolves: generateEmbedding returns result.embedding.values;
\* the call resolves when the last of its requests has
EmbedContentResolves(i) ==
    /\ legCall.live[i] = "pending"
    /\ LET live == [legCall.live EXCEPT ![i] = "ok"]
       IN  legCall' =
               IF \A k \in 1..Len(live) : live[k] = "ok"
               THEN [legCall EXCEPT !.live = live, !.state = "resolved",
                         !.result = [k \in 1..Len(legCall.texts) |->
                                        LegacyVector("live", legCall.texts[k])]]
               ELSE [legCall EXCEPT !.live = live]
    /\ UNCHANGED GOOGLE_API_KEY
    /\ UNCHANGED <<embVars, rankVars, rrVars, sugVars, rlVars, routeVars, fbVars, tokVars>>

\* embedContent rejects: the catch block of generateEmbedding throws
\* 'Failed to generate embedding', and Promise.all rejects with the first
\* such error
EmbedContentRejects(i) ==
    /\ legCall.live[i] = "pending"
    /\ legCall' = [legCall EXCEPT !.live[i] = "fail", !.state = "rejected"]
    /\ UNCHANGED GOOGLE_API_KEY
    /\ UNCHANGED <<embVars, rankVars, rrVars, sugVars, rlVars, routeVars, fbVars, tokVars>>

LegNext ==
    \/ LegacyGenerateEmbedding
    \/ LegacyGenerateEmbeddings
    \/ \E i \in 1..Len(legCall.live) : EmbedContentResolves(i)
    \/ \E i \in 1..Len(legCall.live) : EmbedContentRejects(i)

InitEmbedding == EmbInit /\ RankIdle /\ RrIdle /\ SugIdle /\ RlIdle /\ RouteIdle /\ FbIdle /\ TokIdle /\ LegIdle
InitRank      == EmbIdle /\ RankInit /\ RrIdle /\ SugIdle /\ RlIdle /\ RouteIdle /\ FbIdle /\ TokIdle /\ LegIdle
InitRerank    == EmbIdle /\ RankIdle /\ RrInit /\ SugIdle /\ RlIdle /\ RouteIdle /\ FbIdle /\ TokIdle /\ LegIdle
InitSuggest   == EmbIdle /\ RankIdle /\ RrIdle /\ SugInit /\ RlIdle /\ RouteIdle /\ FbIdle /\ TokIdle /\ LegIdle
InitRateLimit == EmbIdle /\ RankIdle /\ RrIdle /\ SugIdle /\ RlInit /\ RouteIdle /\ FbIdle /\ TokIdle /\ LegIdle
InitRoutes    == EmbIdle /\ RankIdle /\ RrIdle /\ SugIdle /\ RlIdle /\ RouteInit /\ FbIdle /\ TokIdle /\ LegIdle
InitFallback  == EmbIdle /\ RankIdle /\ RrIdle /\ SugIdle /\ RlIdle /\ RouteIdle /\ FbInit /\ TokIdle /\ LegIdle
InitTokens    == EmbIdle /\ RankIdle /\ RrIdle /\ SugIdle /\ RlIdle /\ RouteIdle /\ FbIdle /\ TokInit /\ LegIdle
InitLegacy    == EmbIdle /\ RankIdle /\ RrIdle /\ SugIdle /\ RlIdle /\ RouteIdle /\ FbIdle /\ TokIdle /\ LegInit

SpecEmbedding == InitEmbedding /\ [][EmbNext]_vars
SpecRank      == InitRank /\ [][RankNext]_vars
SpecRerank    == InitRerank /\ [][RrNext]_vars
SpecSuggest   == InitSuggest /\ [][SugNext]_vars
SpecRateLimit == InitRateLimit /\ [][RlNext]_vars
SpecRoutes    == InitRoutes /\ [][RouteNext]_vars
SpecFallback  == InitFallback /\ [][FbNext]_vars
SpecTokens    == InitTokens /\ [][TokNext]_vars
SpecLegacy    == InitLegacy /\ [][LegNext]_vars

(***************************************************************************)
(* Properties of the EmbeddingService (checked under SpecEmbedding).       *)
(***************************************************************************)
Completed == last.kind # "none"

AllFromLive(call) == \A i \in 1..Len(call.vectors) : call.vectors[i].src = "live"

\* C1: with a credential, as long as no request to the live backend has
\* succeeded, every completed generateEmbedding / generateEmbeddings call has
\* resolved (not thrown) with one mock vector per text, each non-empty and of
\* the configured fallback dimensionality, and wasRealAPIUsed() is false.
C1_FallbackWhenLiveFails ==
    (HasKey /\ ~liveOk) =>
        /\ usedRealAPI = FALSE
        /\ Completed =>
              /\ last.outcome = "resolved"
              /\ Len(last.vectors) = Len(last.texts)
              /\ \A i \in 1..Len(last.vectors) :
                    /\ last.vectors[i].src = "mock"
                    /\ last.vectors[i].len > 0
                    /\ last.vectors[i].len = Dimensions(provider, model)

\* C2: wasRealAPIUsed() is true if and only if the most recently completed
\* call (of at least one text) obtained all of its vectors from the live
\* backend.
C2_UsedRealAPIReflectsLastCall ==
    (Completed /\ last.texts # <<>>) => (usedRealAPI <=> AllFromLive(last))

\* C3: in a completed generateEmbeddings call, every text whose live request
\* succeeded keeps its live vector; only the failed texts are substituted.
C3_SuccessfulItemsKeepLiveVectors ==
    (HasKey /\ last.kind = "batch" /\ last.outcome = "resolved") =>
        \A i \in 1..Len(last.texts) :
            last.live[i] = "ok" => last.vectors[i].src = "live"

\* C4: without a credential no live request is ever issued, every returned
\* vector is the fallback generator's output for its text, and
\* wasRealAPIUsed() is false.
C4_NoCredentialNoLiveCall ==
    ~HasKey =>
        /\ liveCalls = 0
        /\ inflight = {}
        /\ usedRealAPI = FALSE
        /\ Completed =>
              /\ last.outcome = "resolved"
              /\ Len(last.vectors) = Len(last.texts)
              /\ \A i \in 1..Len(last.vectors) :
                    last.vectors[i] = generateMockEmbedding(provider, model, last.texts[i])

\* an instance without credential after two calls, the last a batch of two
C4_Witness ==
    /\ ~HasKey /\ nCalls >= 2
    /\ last.kind = "batch" /\ Len(last.texts) = 2

(***************************************************************************)
(* Properties of the similarity ranker (checked under SpecRank).           *)
(***************************************************************************)
RankReturned == rankOut.state = "returned"
RankN == Len(rankIn.embeddings)
Mismatched(i) == Len(rankIn.embeddings[i]) # Len(rankIn.query)

\* C5: cosineSimilarity throws whenever the two lengths differ, and
\* findMostSimilar throws, returning no ranking at all, if any passage
\* vector's length differs from the query vector's.
C5_DimensionMismatchThrows ==
    /\ \A i \in 1..RankN :
          Mismatched(i) => cosineSimilarity(rankIn.query, rankIn.embeddings[i]) = Threw
    /\ (rankOut.state # "pending" /\ \E i \in 1..RankN : Mismatched(i)) =>
          /\ rankOut.state = "threw"
          /\ rankOut.results = <<>>

\* findMostSimilar has thrown on passages of which some match the query's
\* length and a later one does not
C5_Witness ==
    /\ rankOut.state = "threw"
    /\ RankN >= 2
    /\ ~Mismatched(1)
    /\ \E i \in 2..RankN : Mismatched(i)
    /\ rankIn.topK >= 1

SpecExampleInput ==
    /\ rankIn.query = <<1, 0, 0>>
    /\ rankIn.embeddings = << <<1, 0, 0>>, <<0, 1, 0>>, <<-1, 0, 0>> >>
    /\ rankIn.topK = 2

\* C6: the results are in non-increasing order of similarity, results of
\* equal similarity in ascending order of original index; query [1,0,0]
\* against [[1,0,0],[0,1,0],[-1,0,0]] with topK = 2 yields indices 0 then 1
\* with similarities 1 and 0.
C6_SortedDescendingStable ==
    RankReturned =>
        /\ \A k \in 1..(Len(rankOut.results) - 1) :
              \/ rankOut.results[k].similarity > rankOut.results[k + 1].similarity
              \/ /\ rankOut.results[k].similarity = rankOut.results[k + 1].similarity
                 /\ rankOut.results[k].index < rankOut.results[k + 1].index
        /\ SpecExampleInput =>
              /\ Len(rankOut.results) = 2
              /\ rankOut.results[1].index = 0 /\ rankOut.results[1].similarity = SimScale
              /\ rankOut.results[2].index = 1 /\ rankOut.results[2].similarity = 0

\* a returned ranking in which two results tie and a strictly better passage
\* came later in the input than a worse one
C6_Witness ==
    /\ RankReturned
    /\ Len(rankOut.results) = 3
    /\ rankOut.results[1].index = 2
    /\ rankOut.results[2].similarity = rankOut.results[3].similarity
    /\ rankOut.results[1].similarity > rankOut.results[2].similarity

Min(a, b) == IF a < b THEN a ELSE b

\* the fully sorted list: what findMostSimilar returns when topK is the
\* number of passages
FullRanking ==
    findMostSimilar(rankIn.query, rankIn.embeddings, rankIn.passages, RankN).results

\* C7: for topK >= 0 the result is exactly the first min(topK, N) entries of
\* the fully sorted list (which ranks all N passages, each with its own
\* cosine similarity), the returned indices are pairwise distinct and lie in
\* 0..N-1, and each result's text is passageTexts[index].
C7_TopKPrefix ==
    (RankReturned /\ rankIn.topK >= 0) =>
        LET r == rankOut.results
        IN  /\ Len(r) = Min(rankIn.topK, RankN)
            /\ Len(FullRanking) = RankN
            /\ {FullRanking[k].index : k \in 1..RankN} = 0..(RankN - 1)
            /\ \A k \in 1..Len(r) : r[k] = FullRanking[k]
            /\ \A k \in 1..Len(r) :
                  /\ r[k].index \in 0..(RankN - 1)
                  /\ r[k].text = rankIn.passages[r[k].index + 1]
                  /\ Num(r[k].similarity) =
                         cosineSimilarity(rankIn.query, rankIn.embeddings[r[k].index + 1])
            /\ \A j, k \in 1..Len(r) : j # k => r[j].index # r[k].index

\* a ranking cut to fewer results than there are passages, whose best
\* passage is not the first of the input
C7_Witness ==
    /\ RankReturned
    /\ RankN = 3 /\ rankIn.topK = 2
    /\ Len(rankOut.results) = 2
    /\ rankOut.results[1].index = 1

(***************************************************************************)
(* Properties of the RerankingService (checked under SpecRerank).          *)
(***************************************************************************)
RrReturned == rrOut.state = "returned"
RrN == Len(rrIn.passages)

\* C8: on the live path and on the mock path alike, rerankPassages returns N
\* results in non-increasing order of finalScore, whose ranks are 1..N in
\* output order and whose originalIndex values are a permutation of 0..N-1
\* with text = passages[originalIndex].
C8_RanksArePermutation ==
    RrReturned =>
        LET r == rrOut.results
        IN  /\ Len(r) = RrN
            /\ \A k \in 1..Len(r) : r[k].rank = k
            /\ \A k \in 1..(Len(r) - 1) : r[k].finalScore >= r[k + 1].finalScore
            /\ {r[k].originalIndex : k \in 1..Len(r)} = 0..(RrN - 1)
            /\ \A k \in 1..Len(r) : r[k].text = rrIn.passages[r[k].originalIndex + 1]

\* a live rerank that moves the second passage to rank 1
C8_Witness ==
    /\ RrReturned /\ rrOut.backend = "ok" /\ rrUsedRealAPI
    /\ RrN = 2
    /\ rrOut.results[1].originalIndex = 1
    /\ rrOut.results[1].finalScore > rrOut.results[2].finalScore

\* C9: every result of rerankPassages has finalScore within [0,100], whether
\* the rerank scores came from a live backend or from mock synthesis (the
\* input similarities all lie in [-1,1]).
C9_FinalScoreWithin0To100 ==
    RrReturned =>
        \A k \in 1..Len(rrOut.results) :
            /\ rrOut.results[k].finalScore >= 0
            /\ rrOut.results[k].finalScore <= 100 * SimScale

Abs(x) == IF x < 0 THEN 0 - x ELSE x

\* C10: whenever the live rerank backend fails, or none is configured, the
\* result is the mock synthesis - every rerankScore is within 10 points of
\* the passage's embedding score on the 0..100 scale and lies in [0,100] -
\* and wasRealAPIUsed() is false.
C10_FailureGivesMockSynthesis ==
    (RrReturned /\ rrOut.backend \in {"fail", "none"}) =>
        /\ rrUsedRealAPI = FALSE
        /\ \A k \in 1..Len(rrOut.results) :
              LET r == rrOut.results[k]
                  e == ScaleTo100(rrIn.embeddingScores[r.originalIndex + 1])
              IN  /\ r.embeddingScore = e
                  /\ r.rerankScore >= 0 /\ r.rerankScore <= 100 * SimScale
                  /\ Abs(r.rerankScore - e) <= 10 * SimScale

\* the example of the fusion: embedding scores [80, 60], rerank scores [50, 90]
ExampleFusion ==
    combineScores(PassageTexts(2),
                  <<80 * SimScale, 60 * SimScale>>, <<50 * SimScale, 90 * SimScale>>)

\* C11: in every result of combineScores, finalScore = 0.7 * embeddingScore +
\* 0.3 * rerankScore for the embeddingScore and rerankScore of the same record;
\* embedding scores [80, 60] with rerank scores [50, 90] give final scores
\* [71, 69], passage 0 at rank 1 and passage 1 at rank 2.
C11_FinalScoreIsWeightedSum ==
    /\ RrReturned =>
           \A k \in 1..Len(rrOut.results) :
               LET r == rrOut.results[k]
               IN  10 * r.finalScore = 7 * r.embeddingScore + 3 * r.rerankScore
    /\ RrReturned =>
           /\ [k \in 1..2 |-> ExampleFusion[k].finalScore] = <<71 * SimScale, 69 * SimScale>>
           /\ [k \in 1..2 |-> ExampleFusion[k].originalIndex] = <<0, 1>>
           /\ [k \in 1..2 |-> ExampleFusion[k].rank] = <<1, 2>>

\* a returned fusion of two passages in which a record's two scores differ, so
\* that the weights matter, and the fusion reordered the passages
C11_Witness ==
    /\ RrReturned /\ RrN = 2
    /\ \E k \in 1..2 : rrOut.results[k].embeddingScore # rrOut.results[k].rerankScore
    /\ rrOut.results[1].originalIndex = 1
    /\ rrOut.results[1].embeddingScore < rrOut.results[2].embeddingScore

\* C12: the fallback embedding of a text is a function of the text and the
\* dimensionality D only: a fallback vector returned by any call of any
\* instance, whatever its provider, credential and earlier calls, is the
\* vector every instance of the same dimensionality computes for that text.
C12_FallbackIsFunctionOfTextAndD ==
    Completed =>
        \A i \in 1..Len(last.vectors) :
            last.vectors[i].src = "mock" =>
                \A c \in Configs :
                    Dimensions(c[1], c[2]) = last.vectors[i].len =>
                        last.vectors[i] = MockEmbeddings[c][last.texts[i]]

\* a second call falls back after an earlier call of the same instance went
\* live, on an instance that shares its dimensionality with another provider
C12_Witness ==
    /\ Completed /\ nCalls >= 2 /\ usedRealAPI
    /\ Len(last.vectors) >= 1 /\ last.vectors[1].src = "mock"
    /\ \E c \in Configs :
           c # <<provider, model>> /\ Dimensions(c[1], c[2]) = last.vectors[1].len

(***************************************************************************)
(* Properties of the token suggestion analyzer (checked under SpecSuggest).*)
(***************************************************************************)
SugReturned == sugOut.state = "returned"

\* the candidates of a token in the order they are generated
Candidates(token, queryTokens) ==
    getCommonWordVariations(token) \o getMorphologicalVariations(token) \o queryTokens

\* the position at which a value is first generated (0 if it never is)
FirstIndex(value, candidates) ==
    IF \E i \in 1..Len(candidates) : candidates[i] = value
    THEN CHOOSE i \in 1..Len(candidates) :
             /\ candidates[i] = value
             /\ \A j \in 1..(i - 1) : candidates[j] # value
    ELSE 0

\* C13: every TokenSuggestion returned by generateTokenSuggestions lists at
\* least 1 and at most 5 suggestions, none of them twice, in the order in
\* which the candidates were generated.
C13_SuggestionsOneToFiveDistinctInOrder ==
    SugReturned =>
        \A e \in 1..Len(sugOut.suggestions) :
            LET entry      == sugOut.suggestions[e]
                list       == entry.suggestions
                candidates == Candidates(entry.originalToken, tokenizeWords(sugIn.query))
            IN  /\ Len(list) >= 1 /\ Len(list) <= 5
                /\ \A k, l \in 1..Len(list) : k # l => list[k] # list[l]
                /\ \A k \in 1..Len(list) : FirstIndex(list[k], candidates) > 0
                /\ \A k, l \in 1..Len(list) :
                       k < l => FirstIndex(list[k], candidates) < FirstIndex(list[l], candidates)

\* a text of two unmatched tokens, one with four suggestions
C13_Witness ==
    /\ SugReturned
    /\ Len(sugOut.suggestions) = 2
    /\ \E e \in 1..2 : Len(sugOut.suggestions[e].suggestions) = 4

\* "the", "quick", "fox"
TokenThe == <<116, 104, 101>>
TokenQuick == <<113, 117, 105, 99, 107>>
TokenFox == <<102, 111, 120>>

\* C20: generateTokenSuggestions("the quick fox", "quick brown fox") returns
\* an entry for "the" at position 0 with at least one suggestion, and no entry
\* for "quick" or "fox".
C20_ExampleFlagsThe ==
    (SugReturned /\ sugIn = [text |-> SuggestionTexts[1], query |-> SuggestionTexts[2]]) =>
        /\ \E e \in 1..Len(sugOut.suggestions) :
               /\ sugOut.suggestions[e].originalToken = TokenThe
               /\ sugOut.suggestions[e].position = 0
               /\ Len(sugOut.suggestions[e].suggestions) >= 1
        /\ \A e \in 1..Len(sugOut.suggestions) :
               sugOut.suggestions[e].originalToken \notin {TokenQuick, TokenFox}

(***************************************************************************)
(* Properties of the rate limiter (checked under SpecRateLimit).           *)
(***************************************************************************)
\* the ticks of the 60-second window that starts at tick t
WindowFrom(t) == t..(t + RateWindow - 1)

\* C14: under any interleaving of concurrent rateLimit(userId, limit) calls
\* of one user, at most `limit` calls return success within one 60-second
\* window.
C14_AtMostLimitSuccessesPerWindow ==
    \A t \in 0..MaxTime :
        Cardinality({h \in rlHistory : h.success /\ h.returned \in WindowFrom(t)}) <= rlLimit

\* the requests the user has sent so far
Arrivals == {c.id : c \in rlCalls} \cup {h.id : h \in rlHistory}
ArrivedAt(id) ==
    IF \E c \in rlCalls : c.id = id
    THEN (CHOOSE c \in rlCalls : c.id = id).arrived
    ELSE (CHOOSE h \in rlHistory : h.id = id).arrived

\* the user never sends more than `limit` requests in any 60-second interval
WithinLimit ==
    \A t \in 0..MaxTime :
        Cardinality({id \in Arrivals : ArrivedAt(id) \in WindowFrom(t)}) <= rlLimit

\* C15: a user whose requests never number more than `limit` in any
\* 60-second interval is never rejected by rateLimit, however long the user
\* keeps sending requests.
C15_UserWithinLimitNeverRejected ==
    WithinLimit => \A h \in rlHistory : h.success

(***************************************************************************)
(* Properties of the page and the routes (checked under SpecRoutes).       *)
(***************************************************************************)
\* C16: the API key the user enters is kept only in the browser's
\* localStorage: no request the page sends to the application's routes
\* carries the key, and no route handler receives or stores it.
C16_ApiKeyStaysInBrowser ==
    /\ \A request \in httpLog : request.apiKey = ""
    /\ serverKeys = {}

\* the requests that used a service instance
UsersOf(service) == { use[2] : use \in { u \in svcUse : u[1] = service } }

\* C17: no embedding or reranking service instance is used by more than one
\* request: every route handler constructs its own instance for the request
\* it is serving.
C17_OneRequestPerServiceInstance ==
    \A use \in svcUse : Cardinality(UsersOf(use[1])) <= 1

(***************************************************************************)
(* Further properties of the EmbeddingService (checked under               *)
(* SpecEmbedding).                                                         *)
(***************************************************************************)
\* the fallback vectors a completed call returned
FallbackLengths(call) ==
    { call.vectors[i].len : i \in { j \in 1..Len(call.vectors) : call.vectors[j].src = "mock" } }

\* C18: a fallback vector has 768 dimensions on a google instance, 1536 on
\* an openai instance with text-embedding-3-small and 3072 with
\* text-embedding-3-large, and all fallback vectors of one instance have the
\* same length - within a call and from one call to the next - so that
\* vectors from several calls never differ in length.
C18_FallbackDimensionality ==
    /\ [](Completed =>
            /\ Cardinality(FallbackLengths(last)) <= 1
            /\ \A d \in FallbackLengths(last) :
                  /\ provider = "google" => d = 768
                  /\ (provider = "openai" /\ model = "text-embedding-3-small") => d = 1536
                  /\ (provider = "openai" /\ model = "text-embedding-3-large") => d = 3072)
    /\ [][Cardinality(FallbackLengths(last) \cup FallbackLengths(last')) <= 1]_vars

\* the second call of an openai text-embedding-3-large instance returns a
\* batch of two fallback vectors
C18_Witness ==
    /\ Completed /\ nCalls = 2
    /\ provider = "openai" /\ model = "text-embedding-3-large"
    /\ last.kind = "batch" /\ Len(last.vectors) = 2
    /\ \A i \in 1..2 : last.vectors[i].src = "mock"

(***************************************************************************)
(* Further properties of the similarity ranker (checked under SpecRank).   *)
(***************************************************************************)
\* a vector of norm 0: every component is 0 (the vector of length 0 included)
ZeroNorm(vec) == \A i \in 1..Len(vec) : vec[i] = 0

\* C19: for vectors of equal length cosineSimilarity returns exactly 0 when
\* either of them has norm 0 - also when both have, and when both have
\* length 0 - instead of dividing by the zero norm.
C19_ZeroNormGivesZero ==
    RankReturned =>
        \A k \in 1..Len(rankOut.results) :
            LET passage == rankIn.embeddings[rankOut.results[k].index + 1]
            IN  (ZeroNorm(rankIn.query) \/ ZeroNorm(passage)) =>
                    rankOut.results[k].similarity = 0

\* a query of length 0 ranked against two passages of length 0
C19_Witness ==
    /\ RankReturned
    /\ rankIn.query = <<>>
    /\ Len(rankOut.results) = 2
    /\ \A i \in 1..Len(rankIn.embeddings) : rankIn.embeddings[i] = <<>>

(***************************************************************************)
(* Further properties of the RerankingService (checked under SpecRerank).  *)
(***************************************************************************)
\* C21: in every result of rerankPassages the embeddingScore is
\* (s + 1) / 2 * 100 for the passage's input cosine similarity s, on the live
\* path as on the mock path.
C21_EmbeddingScoreRescaled ==
    RrReturned =>
        \A k \in 1..Len(rrOut.results) :
            LET r == rrOut.results[k]
                s == rrIn.embeddingScores[r.originalIndex + 1]
            IN  r.embeddingScore = ((s + SimScale) * 100) \div 2

(***************************************************************************)
(* Malformed credentials (checked under SpecEmbedding).                    *)
(***************************************************************************)
\* C22: with a credential that fails the provider's key-format check, no
\* request is issued to the live backend with that key, every returned
\* vector comes from the fallback generator, and wasRealAPIUsed() is false.
C22_MalformedKeyMakesNoLiveCall ==
    apiKey = "malformed" =>
        /\ liveCalls = 0
        /\ inflight = {}
        /\ usedRealAPI = FALSE
        /\ Completed => \A i \in 1..Len(last.vectors) : last.vectors[i].src = "mock"

(***************************************************************************)
(* Properties of the fallback generator (checked under SpecFallback).      *)
(***************************************************************************)
FbReturned == fbOut.state = "returned"

\* the numbers of a fallback vector: its length and the contributions added
\* to its components
Components(vector) == [len |-> vector.len, feat |-> vector.feat, m |-> vector.m]

\* C23: two texts with the same normalized form (differing only in letter
\* case, punctuation or runs of whitespace) have identical fallback vectors
\* at the same dimensionality, and a text whose normalized form is empty has
\* the all-zero vector.
C23_FallbackDependsOnNormalizedText ==
    FbReturned =>
        /\ preprocessText(fbIn.texts[1]) = preprocessText(fbIn.texts[2]) =>
               Components(fbOut.vectors[1]) = Components(fbOut.vectors[2])
        /\ \A i \in 1..2 :
               preprocessText(fbIn.texts[i]) = <<>> => fbOut.vectors[i].feat = <<>>

(***************************************************************************)
(* Further properties of the token suggestion analyzer (SpecSuggest).      *)
(***************************************************************************)
SugTextTokens == tokenizeWords(sugIn.text)
SugQueryTokens == tokenizeWords(sugIn.query)

\* C24: a TokenSuggestion is emitted only for a text token whose similarity
\* to every query token is at most 0.5; a text token that occurs among the
\* query tokens is never flagged; each entry's position is the index of its
\* token in the tokenized text, and positions are strictly increasing.
C24_OnlyUnmatchedTokensFlaggedInOrder ==
    SugReturned =>
        /\ \A e \in 1..Len(sugOut.suggestions) :
               LET entry == sugOut.suggestions[e]
               IN  /\ entry.position \in 0..(Len(SugTextTokens) - 1)
                   /\ SugTextTokens[entry.position + 1] = entry.originalToken
                   /\ \A k \in 1..Len(SugQueryTokens) :
                          ~GreaterThan(calculateTokenSimilarity(entry.originalToken,
                                                                SugQueryTokens[k]), 5)
        /\ \A i \in 1..Len(SugTextTokens) :
               (\E k \in 1..Len(SugQueryTokens) : SugQueryTokens[k] = SugTextTokens[i]) =>
                   \A e \in 1..Len(sugOut.suggestions) : sugOut.suggestions[e].position # i - 1
        /\ \A e, f \in 1..Len(sugOut.suggestions) :
               e < f => sugOut.suggestions[e].position < sugOut.suggestions[f].position

\* a text whose first token is a query token and whose second token is flagged
C24_Witness ==
    /\ SugReturned
    /\ Len(SugTextTokens) = 2
    /\ \E k \in 1..Len(SugQueryTokens) : SugQueryTokens[k] = SugTextTokens[1]
    /\ Len(sugOut.suggestions) = 1
    /\ sugOut.suggestions[1].position = 1

(***************************************************************************)
(* Properties of calculateTokenSimilarity (checked under SpecTokens).      *)
(***************************************************************************)
TokReturned == tokOut.state = "returned"

\* the function of the version that produced tokOut
SimilarityBy(version, a, b) ==
    IF version = "part_007" THEN calculateTokenSimilarity(a, b)
    ELSE calculateTokenSimilarityLegacy(a, b)

\* the classic Levenshtein distance, by its recursive definition
RECURSIVE Levenshtein(_, _)
Levenshtein(a, b) ==
    IF a = <<>> THEN Len(b)
    ELSE IF b = <<>> THEN Len(a)
    ELSE IF Head(a) = Head(b) THEN Levenshtein(Tail(a), Tail(b))
    ELSE 1 + Min3(Levenshtein(Tail(a), b), Levenshtein(a, Tail(b)),
                  Levenshtein(Tail(a), Tail(b)))

\* a fraction that is a number, and two such fractions that are equal
IsNumber(x) == x[2] > 0
SameNumber(x, y) == IsNumber(x) /\ IsNumber(y) /\ x[1] * y[2] = y[1] * x[2]

LimbStep(limbs, code) ==
    LET t1 == 31 * limbs[1] + code
        t2 == 31 * limbs[2] + (t1 \div 256)
        t3 == 31 * limbs[3] + (t2 \div 256)
        t4 == 31 * limbs[4] + (t3 \div 256)
    IN  <<t1 % 256, t2 % 256, t3 % 256, t4 % 256>>

RECURSIVE LimbsFrom(_, _)
LimbsFrom(limbs, str) ==
    IF str = <<>> THEN limbs ELSE LimbsFrom(LimbStep(limbs, Head(str)), Tail(str))

\* the 32-bit signed value of four limbs
Signed32(limbs) ==
    (IF limbs[4] >= 128 THEN limbs[4] - 256 ELSE limbs[4]) * 16777216
        + limbs[3] * 65536 + limbs[2] * 256 + limbs[1]

WrappedHash(str) == Signed32(LimbsFrom(<<0, 0, 0, 0>>, str))

\* the n-grams generateMockEmbedding hashes for a text
AllNGrams(text) ==
    generateNGrams(toLowerCase(text), 2, 4) \o generateWordNGrams(toLowerCase(text), 1, 3)

\* C26: hashString(s) is |h|, where h starts at 0 and becomes h * 31 + code(c),
\* wrapped to a 32-bit signed integer, for each character c; it is never
\* negative, and every index (hash + i * 97) mod D, i in 0..7, lies in 0..D-1.
C26_HashNonNegativeIndexInRange ==
    FbReturned =>
        \A v \in 1..Len(fbOut.vectors) :
            LET vector == fbOut.vectors[v]
                ngrams == AllNGrams(fbIn.texts[v])
            IN  /\ Len(vector.feat) = 8 * Len(ngrams)
                /\ \A j \in 1..Len(ngrams) : \A i \in 0..7 :
                       LET h     == WrappedHash(ngrams[j])
                           hash  == vector.feat[(j - 1) * 8 + i + 1][2] - i
                           index == vector.feat[(j - 1) * 8 + i + 1][1]
                       IN  /\ hash = (IF h < 0 THEN 0 - h ELSE h)
                           /\ hash >= 0
                           /\ index \in 0..(vector.len - 1)
                           /\ index = (hash + i * 97) % vector.len

\* a text with an n-gram whose wrapped value is negative
C26_Witness ==
    /\ FbReturned
    /\ \E j \in 1..Len(AllNGrams(fbIn.texts[1])) : WrappedHash(AllNGrams(fbIn.texts[1])[j]) < 0
    /\ fbOut.vectors[1].len = 768
    /\ fbOut.vectors[1].feat # <<>>

(***************************************************************************)
(* Properties of the EmbeddingService of src/lib/embeddings.ts (checked    *)
(* under SpecLegacy).                                                      *)
(***************************************************************************)
\* C27: with GOOGLE_API_KEY set, a failing embedContent request makes
\* generateEmbedding resolve with the fallback embedding instead of
\* rejecting, so generateEmbeddings resolves with one vector per text.
C27_LegacyLiveFailureFallsBack ==
    (GOOGLE_API_KEY /\ \E i \in 1..Len(legCall.live) : legCall.live[i] = "fail") =>
        /\ legCall.state = "resolved"
        /\ Len(legCall.result) = Len(legCall.texts)
        /\ \A i \in 1..Len(legCall.result) :
               legCall.live[i] = "fail" => legCall.result[i].src = "mock"

(***************************************************************************)
(* Further properties of the rate limiter (checked under SpecRateLimit).   *)
(***************************************************************************)
\* C28: when the KV store throws, rateLimit falls back to the database
\* counter and still admits an existing authenticated user who is under the
\* limit (here: the user's first request), on the similarity route and on
\* the rerank route.
C28_KvFailureStillAdmits ==
    rlStarted = 1 =>
        \A h \in rlHistory : h.path = "db" => h.success

\* the elements of a sequence
Range(seq) == { seq[i] : i \in 1..Len(seq) }

\* C29: the query-token rule of generateSemanticVariations never contributes:
\* for a token that reaches suggestion generation no query token has a
\* similarity above 0.5, so every suggestion of every emitted entry comes
\* from the inflection table or from suffix stripping.
C29_QueryTokenRuleNeverContributes ==
    SugReturned =>
        \A e \in 1..Len(sugOut.suggestions) :
            LET entry == sugOut.suggestions[e]
                token == entry.originalToken
            IN  /\ \A q \in Range(SugQueryTokens) :
                       ~GreaterThan(calculateTokenSimilarity(token, q), 5)
                /\ Range(entry.suggestions) \subseteq
                       Range(getCommonWordVariations(token))
                           \cup Range(getMorphologicalVariations(token))

\* an entry is emitted for a token that shares characters with a query token
C29_Witness ==
    /\ SugReturned
    /\ \E e \in 1..Len(sugOut.suggestions) :
           \E q \in Range(SugQueryTokens) :
               /\ calculateTokenSimilarity(sugOut.suggestions[e].originalToken, q)[1] > 0
               /\ q \notin Range(sugOut.suggestions[e].suggestions)

(***************************************************************************)
(* The mock rerank path (checked under SpecRerank).                        *)
(***************************************************************************)
\* the call returned through generateMockReranking
MockPath == RrReturned /\ ~rrUsedRealAPI

\* C30: on the mock rerank path every result has
\* |finalScore - embeddingScore| <= 3, so two passages whose rescaled
\* embedding scores differ by more than 6 keep their embedding order in the
\* final ranking, whatever random variation is drawn.
C30_MockFinalWithinThreeOfEmbedding ==
    MockPath =>
        /\ \A k \in 1..Len(rrOut.results) :
               Abs(rrOut.results[k].finalScore - rrOut.results[k].embeddingScore)
                   <= 3 * SimScale
        /\ \A k, l \in 1..Len(rrOut.results) :
               rrOut.results[k].embeddingScore > rrOut.results[l].embeddingScore + 6 * SimScale
                   => rrOut.results[k].rank < rrOut.results[l].rank

\* two passages 10 points apart, the better one drawn down by the full 3
\* points and the other drawn up, keep their order
C30_Witness ==
    /\ MockPath /\ RrN = 2
    /\ rrOut.results[1].embeddingScore = rrOut.results[2].embeddingScore + 10 * SimScale
    /\ rrOut.results[1].finalScore = rrOut.results[1].embeddingScore - 3 * SimScale
    /\ rrOut.results[2].finalScore > rrOut.results[2].embeddingScore

====
